---- MODULE Spec2Model ----
(***************************************************************************)
(* Job tracker: the status tracker of src/app/lib/jobStatus.ts and the     *)
(* digest generator of src/app/digest/page.tsx, over a model of the        *)
(* browser's localStorage and clock.                                       *)
(***************************************************************************)
EXTENDS Integers, Sequences, FiniteSets, TLC

VARIABLES
    now,          \* the clock (new Date()), in ticks since the epoch
    statusItem,   \* localStorage["jobTrackerStatus"]
    historyItem,  \* localStorage["jobTrackerStatusHistory"]
    call,         \* the last library call made: its name, its arguments, what it
                  \* found stored (saveJobStatus) and its result
    recorded,     \* every history-recording change made so far, newest first
    lastSet,      \* per job: the status of the latest saveJobStatus call
    calls,        \* how many unconstrained calls, or clicks on Generate, were made
    tz,           \* the browser's time zone: local time is UTC + tz ticks
    jobs,         \* the Job Store (data/jobs), a list fixed at start
    prefItem,     \* localStorage: the stored preferences
    digestItems,  \* localStorage: the items whose key is a digest key
    page,         \* the Digest page: mounted or not, and its React state
    timers,       \* the pending setTimeout callbacks of handleGenerateDigest, with
                  \* what each closure holds and when its button was clicked
    generated,    \* per calendar day: the latest completed generation, how many
                  \* were completed, and the digest of the one before
    savedItem,    \* localStorage["jnt_saved_jobs"]
    testItem,     \* localStorage["jobTrackerTestStatus"]
    view          \* the Dashboard, Saved, Test Checklist or Ship page shown in the
                  \* tab, with its React state; or none of them

statusVars == <<statusItem, historyItem, call, recorded, lastSet, calls>>

digestVars == <<tz, jobs, prefItem, digestItems, page, timers, generated>>

pagesVars == <<savedItem, testItem, view>>

vars == <<now, statusItem, historyItem, call, recorded, lastSet, calls,
          tz, jobs, prefItem, digestItems, page, timers, generated,
          savedItem, testItem, view>>

----------------------------------------------------------------------------
(* Bounds *)

\* ticks of the clock per calendar day
TicksPerDay == 2
\* jobs whose status the user tracks
NumTrackedJobs == 2
\* unconstrained calls in SpecStatus
MaxCalls == 4
\* status changes made by cycling one job through the statuses in SpecLong
MaxChanges == 22
\* unconstrained calls interleaved with the cycling in SpecLong
MaxFree == 1
\* jobs of the largest Job Store
NumJobs == 12
\* the clock's last tick in SpecDigest and SpecGenerate
MaxNow == 2
\* clicks on the Generate button
MaxClicks == 2
\* mounts of the Digest page
MaxMounts == 3
\* changes of a status on the Dashboard and the Saved page
MaxEvents == 2

(* Program constants *)

\* jobStatus.ts:92  slice(0, 20)
HistoryCap == 20
\* jobStatus.ts:117  days: number = 7
DefaultDays == 7
\* digest/page.tsx:63  slice(0, 10)
DigestSize == 10
\* digest/page.tsx:380  the tests the Ship page asks for
TOTAL_TESTS == 10

----------------------------------------------------------------------------
(* Values *)

Min(a, b) == IF a <= b THEN a ELSE b

\* JobCard.tsx:18,44
NotApplied == "Not Applied"
statusOptions == <<"Not Applied", "Applied", "Rejected", "Selected">>
JobStatus == {statusOptions[i] : i \in 1..Len(statusOptions)}

\* the value of a property that an object does not have
Undefined == "undefined"

\* The Job Store. A title and a company are lists of words.
JobAt(i) ==
    [id |-> i,
     title |-> IF i % 2 = 1 THEN <<"Backend", "Engineer">> ELSE <<"Frontend", "Developer">>,
     company |-> IF i % 2 = 1 THEN <<"Acme">> ELSE <<"Globex">>,
     location |-> IF i % 3 = 0 THEN "Pune" ELSE "Remote",
     mode |-> IF i % 3 = 0 THEN "Onsite" ELSE "Remote",
     experience |-> IF i % 2 = 0 THEN "1-3" ELSE "3-5",
     salaryRange |-> CASE i % 4 = 0 -> <<"Negotiable">>
                       [] i % 4 = 1 -> <<"15", "-", "25", "LPA">>
                       [] i % 4 = 2 -> <<"20", "-", "30", "LPA">>
                       [] OTHER -> <<"10", "-", "18", "LPA">>,
     skills |-> IF i % 4 < 2 THEN <<"Go", "SQL">> ELSE <<"React">>,
     source |-> IF i % 2 = 0 THEN "LinkedIn" ELSE "Naukri",
     postedDaysAgo |-> (i * 7) % 5,
     applyUrl |-> <<"https://jobs.example/apply", i>>]

AllJobs == [i \in 1..NumJobs |-> JobAt(i)]

TrackedJobs == 1..NumTrackedJobs
TitleOf(j) == JobAt(j).title
CompanyOf(j) == JobAt(j).company

\* Date.prototype.toISOString: the UTC calendar day and the time within it
toISOString(t) == [day |-> t \div TicksPerDay, time |-> t % TicksPerDay]
\* new Date(isoString)
parseDate(iso) == iso.day * TicksPerDay + iso.time

\* a localStorage item: absent (getItem gives null), text that is not JSON,
\* or the JSON text of a value
NullItem == [tag |-> "null"]
BadItem == [tag |-> "bad"]
\* JSON.stringify
JSONstringify(v) == [tag |-> "json", val |-> v]

----------------------------------------------------------------------------
(* src/app/lib/jobStatus.ts *)

EmptyStatuses == [j \in TrackedJobs |-> Undefined]

loadJobStatuses(item) ==
    IF item.tag = "null" THEN EmptyStatuses
    ELSE IF item.tag = "json" THEN item.val
    ELSE EmptyStatuses

\* getJobStatus without the default
getJobStatus_noDefault(item, jobId) == loadJobStatuses(item)[jobId]

getJobStatus(item, jobId) ==
    LET statuses == loadJobStatuses(item)
    IN  IF statuses[jobId] = Undefined THEN NotApplied ELSE statuses[jobId]

loadStatusHistory(item) ==
    IF item.tag = "null" THEN << >>
    ELSE IF item.tag = "json" THEN item.val
    ELSE << >>

\* Array.prototype.slice(0, n)
slice0(s, n) == SubSeq(s, 1, Min(n, Len(s)))

\* recordStatusHistory without the cap
recordStatusHistory_noCap(hItem, jobId, jobTitle, company, status, t) ==
    JSONstringify(<<[jobId |-> jobId, jobTitle |-> jobTitle, company |-> company,
                     status |-> status, changedAt |-> toISOString(t)]>>
                  \o loadStatusHistory(hItem))

\* recordStatusHistory adding the entry at the end
recordStatusHistory_atEnd(hItem, jobId, jobTitle, company, status, t) ==
    JSONstringify(slice0(loadStatusHistory(hItem)
                         \o <<[jobId |-> jobId, jobTitle |-> jobTitle, company |-> company,
                               status |-> status, changedAt |-> toISOString(t)]>>,
                         HistoryCap))

\* recordStatusHistory cutting one entry too many
recordStatusHistory_offByOne(hItem, jobId, jobTitle, company, status, t) ==
    JSONstringify(slice0(<<[jobId |-> jobId, jobTitle |-> jobTitle, company |-> company,
                            status |-> status, changedAt |-> toISOString(t)]>>
                         \o loadStatusHistory(hItem), HistoryCap - 1))

recordStatusHistory(hItem, jobId, jobTitle, company, status, t) ==
    LET history == loadStatusHistory(hItem)
        newEntry == [jobId |-> jobId, jobTitle |-> jobTitle, company |-> company,
                     status |-> status, changedAt |-> toISOString(t)]
        updatedHistory == slice0(<<newEntry>> \o history, HistoryCap)
    IN  JSONstringify(updatedHistory)

\* saveJobStatus without the early return on an unchanged status
saveJobStatus_noReturn(sItem, hItem, jobId, status, jobTitle, company, t) ==
    [status |-> JSONstringify([loadJobStatuses(sItem) EXCEPT ![jobId] = status]),
     history |-> IF status # NotApplied
                 THEN recordStatusHistory(hItem, jobId, jobTitle, company, status, t)
                 ELSE hItem]

\* saveJobStatus recording only the first change of a job
saveJobStatus_firstChangeOnly(sItem, hItem, jobId, status, jobTitle, company, t) ==
    IF loadJobStatuses(sItem)[jobId] = status
    THEN [status |-> sItem, history |-> hItem]
    ELSE [status |-> JSONstringify([loadJobStatuses(sItem) EXCEPT ![jobId] = status]),
          history |-> IF /\ status # NotApplied
                         /\ \A i \in 1..Len(loadStatusHistory(hItem)) :
                                loadStatusHistory(hItem)[i].jobId # jobId
                      THEN recordStatusHistory(hItem, jobId, jobTitle, company, status, t)
                      ELSE hItem]

\* saveJobStatus recording every change, the default status included
saveJobStatus_recordsAll(sItem, hItem, jobId, status, jobTitle, company, t) ==
    IF loadJobStatuses(sItem)[jobId] = status
    THEN [status |-> sItem, history |-> hItem]
    ELSE [status |-> JSONstringify([loadJobStatuses(sItem) EXCEPT ![jobId] = status]),
          history |-> recordStatusHistory(hItem, jobId, jobTitle, company, status, t)]

\* saveJobStatus giving up on a stored text that does not parse
saveJobStatus_keepsMalformed(sItem, hItem, jobId, status, jobTitle, company, t) ==
    IF sItem.tag = "bad" THEN [status |-> sItem, history |-> hItem]
    ELSE saveJobStatus_noReturn(sItem, hItem, jobId, status, jobTitle, company, t)

\* the two items after the call
saveJobStatus(sItem, hItem, jobId, status, jobTitle, company, t) ==
    LET statuses == loadJobStatuses(sItem)
    IN  IF statuses[jobId] = status
        THEN [status |-> sItem, history |-> hItem]
        ELSE [status |-> JSONstringify([statuses EXCEPT ![jobId] = status]),
              history |-> IF status # NotApplied
                          THEN recordStatusHistory(hItem, jobId, jobTitle, company, status, t)
                          ELSE hItem]

RECURSIVE filterSince(_, _)
\* history.filter((entry) => new Date(entry.changedAt) >= cutoff)
filterSince(history, cutoff) ==
    IF history = << >> THEN << >>
    ELSE (IF parseDate(Head(history).changedAt) >= cutoff THEN <<Head(history)>> ELSE << >>)
         \o filterSince(Tail(history), cutoff)

RECURSIVE filterAfter(_, _)
filterAfter(history, cutoff) ==
    IF history = << >> THEN << >>
    ELSE (IF parseDate(Head(history).changedAt) > cutoff THEN <<Head(history)>> ELSE << >>)
         \o filterAfter(Tail(history), cutoff)

\* getRecentStatusUpdates leaving out the entries exactly at the cutoff
getRecentStatusUpdates_strict(hItem, args, t) ==
    filterAfter(loadStatusHistory(hItem),
                t - (IF args = << >> THEN DefaultDays ELSE args[1]) * TicksPerDay)

\* args is the argument list: << >> or <<days>>
getRecentStatusUpdates(hItem, args, t) ==
    LET d == IF args = << >> THEN DefaultDays ELSE args[1]
        history == loadStatusHistory(hItem)
        cutoff == t - d * TicksPerDay
    IN  filterSince(history, cutoff)

clearJobStatuses(sItem) == NullItem

----------------------------------------------------------------------------
(* lib/matchScore: the preferences and the match score *)

NullPrefs == [tag |-> "null"]

PrefsOf(roleKeywords, locations, skills, minMatchScore) ==
    [tag |-> "prefs", roleKeywords |-> roleKeywords, locations |-> locations,
     skills |-> skills, minMatchScore |-> minMatchScore]

\* the preferences a user enters
PrefChoices ==
    { PrefsOf({"backend"}, {}, {}, 40),
      PrefsOf({"frontend"}, {"Pune"}, {"React"}, 40),
      PrefsOf({"backend", "engineer"}, {"Remote"}, {"Go", "SQL"}, 60) }

\* String.prototype.toLowerCase, on the words of the Job Store
toLowerCase(w) ==
    CASE w = "Backend" -> "backend"
      [] w = "Frontend" -> "frontend"
      [] w = "Engineer" -> "engineer"
      [] w = "Developer" -> "developer"
      [] w = "Acme" -> "acme"
      [] w = "Globex" -> "globex"
      [] w = "ENGINEER" -> "engineer"
      [] w = "ACME" -> "acme"
      [] OTHER -> w

Range(seq) == {seq[i] : i \in 1..Len(seq)}

loadPreferences(item) == IF item.tag = "json" THEN item.val ELSE NullPrefs

hasPreferences(item) == loadPreferences(item).tag # "null"

\* score: the matched role keywords, skills and location, at most 100
calculateMatchScore(job, preferences) ==
    LET words == {toLowerCase(w) : w \in Range(job.title)}
        keywordPoints == 25 * Cardinality(preferences.roleKeywords \cap words)
        skillPoints == 15 * Cardinality(preferences.skills \cap Range(job.skills))
        locationPoints == IF job.location \in preferences.locations THEN 30 ELSE 0
    IN  Min(100, keywordPoints + skillPoints + locationPoints)

----------------------------------------------------------------------------
(* src/app/digest/page.tsx *)

\* Date.prototype.getFullYear/getMonth/getDate: the local calendar day
localDay(t, zone) == (t + zone) \div TicksPerDay

\* getTodayKey under the UTC calendar day
getTodayKey_utc(t, zone) == [prefix |-> "jobTrackerDigest_", day |-> t \div TicksPerDay]

getTodayKey(t, zone) == [prefix |-> "jobTrackerDigest_", day |-> localDay(t, zone)]

\* digestCompare ignoring postedDaysAgo
digestCompare_scoreOnly(a, b) == b.matchScore - a.matchScore

\* the comparator of generateDigest's sort
digestCompare(a, b) ==
    IF b.matchScore # a.matchScore
    THEN b.matchScore - a.matchScore
    ELSE a.postedDaysAgo - b.postedDaysAgo

\* job.matchScore ?? 0: a job without a score counts as 0
scoreOrZero(job) == IF "matchScore" \in DOMAIN job THEN job.matchScore ELSE 0

\* the runs of digits in the salary ranges of the Job Store, and parseInt on them
digitRuns == {"10", "15", "18", "20", "25", "30"}

parseInt(run) ==
    CASE run = "10" -> 10
      [] run = "15" -> 15
      [] run = "18" -> 18
      [] run = "20" -> 20
      [] run = "25" -> 25
      [] run = "30" -> 30

\* getFirstNum ranking a salary without digits above every other
getFirstNum_noMatchHigh(s) ==
    LET hits == {i \in 1..Len(s) : s[i] \in digitRuns}
    IN  IF hits = {} THEN 1000
        ELSE parseInt(s[CHOOSE i \in hits : \A j \in hits : i <= j])

\* s.match(/\d+/): the first run of digits, or 0 when there is none
getFirstNum(s) ==
    LET hits == {i \in 1..Len(s) : s[i] \in digitRuns}
    IN  IF hits = {} THEN 0
        ELSE parseInt(s[CHOOSE i \in hits : \A j \in hits : i <= j])

\* the values of the Sort By select
sortOptions == <<"latest", "oldest", "match-score", "salary-high", "salary-low">>

\* Array.prototype.sort with the comparator of `kind`
compare(kind, a, b) ==
    CASE kind = "digest" -> digestCompare(a, b)
      [] kind = "latest" -> a.postedDaysAgo - b.postedDaysAgo
      [] kind = "oldest" -> b.postedDaysAgo - a.postedDaysAgo
      [] kind = "match-score" -> scoreOrZero(b) - scoreOrZero(a)
      [] kind = "salary-high" -> getFirstNum(b.salaryRange) - getFirstNum(a.salaryRange)
      [] kind = "salary-low" -> getFirstNum(a.salaryRange) - getFirstNum(b.salaryRange)

\* x placed behind the last element that does not sort after it
RECURSIVE insertSorted(_, _, _)
insertSorted(kind, sorted, x) ==
    IF sorted = << >> THEN <<x>>
    ELSE IF compare(kind, sorted[Len(sorted)], x) <= 0 THEN Append(sorted, x)
    ELSE Append(insertSorted(kind, SubSeq(sorted, 1, Len(sorted) - 1), x), sorted[Len(sorted)])

\* the stable sort of Array.prototype.sort
RECURSIVE sort(_, _)
sort(kind, seq) ==
    IF seq = << >> THEN << >>
    ELSE insertSorted(kind, sort(kind, SubSeq(seq, 1, Len(seq) - 1)), seq[Len(seq)])

\* { ...job, matchScore: score }
withScore(job, score) ==
    [id |-> job.id, title |-> job.title, company |-> job.company,
     location |-> job.location, mode |-> job.mode, experience |-> job.experience,
     salaryRange |-> job.salaryRange, skills |-> job.skills, source |-> job.source,
     postedDaysAgo |-> job.postedDaysAgo, applyUrl |-> job.applyUrl,
     matchScore |-> score]

\* generateDigest taking the first 10 jobs of the store, unsorted
generateDigest_unsorted(preferences, store, t) ==
    [date |-> toISOString(t).day,
     jobs |-> slice0([i \in 1..Len(store) |->
                         withScore(store[i], IF preferences.tag # "null"
                                             THEN calculateMatchScore(store[i], preferences)
                                             ELSE 0)], DigestSize),
     generatedAt |-> toISOString(t)]

generateDigest(preferences, store, t) ==
    LET jobsWithScores ==
            [i \in 1..Len(store) |->
                withScore(store[i], IF preferences.tag # "null"
                                    THEN calculateMatchScore(store[i], preferences)
                                    ELSE 0)]
        sortedJobs == sort("digest", jobsWithScores)
        topJobs == slice0(sortedJobs, DigestSize)
    IN  [date |-> toISOString(t).day, jobs |-> topJobs, generatedAt |-> toISOString(t)]

\* Date.prototype.toLocaleDateString with weekday, year, month and day: the
\* local calendar day and its day of the week
getTodayDisplayDate(t, zone) ==
    [weekday |-> localDay(t, zone) % 7, day |-> localDay(t, zone)]

\* the lines that forEach pushes for the job at `index`, counted from 0
jobLines(job, index) ==
    <<[rank |-> index + 1, title |-> job.title],
      [label |-> "Company", company |-> job.company],
      [label |-> "Location", location |-> job.location],
      [label |-> "Experience", experience |-> job.experience],
      [label |-> "Match Score", matchScore |-> job.matchScore],
      [label |-> "Apply", applyUrl |-> job.applyUrl],
      [label |-> ""]>>

\* the lines of the jobs from position `from` on
RECURSIVE linesFrom(_, _)
linesFrom(digestJobs, from) ==
    IF from > Len(digestJobs) THEN << >>
    ELSE jobLines(digestJobs[from], from - 1) \o linesFrom(digestJobs, from + 1)

\* the text as its list of lines, which join("\n") separates by line breaks
formatDigestAsText(digest, t, zone) ==
    <<[label |-> "Top 10 Jobs For You - 9AM Digest"],
      [label |-> "Date", date |-> getTodayDisplayDate(t, zone)],
      [label |-> ""], [label |-> "---"], [label |-> ""]>>
    \o linesFrom(digest.jobs, 1)
    \o <<[label |-> "---"], [label |-> ""],
         [label |-> "This digest was generated based on your preferences."]>>

\* digest.jobs.some((job) => job.matchScore > 0)
hasMatches(digest) ==
    digest.tag = "digest" /\ \E i \in 1..Len(digest.val.jobs) : digest.val.jobs[i].matchScore > 0

\* localStorage.getItem / setItem on the digest keys
getItem(items, key) ==
    IF \E r \in items : r.key = key
    THEN (CHOOSE r \in items : r.key = key).item
    ELSE NullItem

setItem(items, key, item) ==
    {r \in items : r.key # key} \cup {[key |-> key, item |-> item]}

\* the page's digest state: null or a DigestData
NoDigest == [tag |-> "null"]
SomeDigest(d) == [tag |-> "digest", val |-> d]

\* the state of a Digest page before its mount effect has run
FreshPage(inst) ==
    [mounted |-> FALSE, inst |-> inst, digest |-> NoDigest, preferences |-> NullPrefs,
     hasPrefs |-> FALSE, isGenerating |-> FALSE, recentUpdates |-> << >>]

----------------------------------------------------------------------------
(* src/app/dashboard/page.tsx: the score and filter pipeline *)

\* dashboard/page.tsx:106  preferences?.minMatchScore ?? 40
DefaultMinMatchScore == 40

minMatchScoreOf(preferences) ==
    IF preferences.tag # "null" /\ "minMatchScore" \in DOMAIN preferences
    THEN preferences.minMatchScore
    ELSE DefaultMinMatchScore

\* the jobsWithScores memo adding a bonus for recent jobs to the score
jobsWithScoresOf_recencyBonus(preferences, store) ==
    IF preferences.tag = "null" THEN store
    ELSE [i \in 1..Len(store) |->
             withScore(store[i], calculateMatchScore(store[i], preferences)
                                     + (4 - store[i].postedDaysAgo))]

\* the jobsWithScores memo: without preferences a job gets no score
jobsWithScoresOf(preferences, store) ==
    IF preferences.tag = "null" THEN store
    ELSE [i \in 1..Len(store) |-> withScore(store[i], calculateMatchScore(store[i], preferences))]

\* a text in lower case, word by word
lower(words) == [i \in 1..Len(words) |-> toLowerCase(words[i])]

\* String.prototype.includes, on texts that are lists of words
includes(text, part) ==
    \E i \in 0..(Len(text) - Len(part)) : SubSeq(text, i + 1, i + Len(part)) = part

\* jobStatuses[job.id] || "Not Applied"
statusOrDefault(jobStatuses, id) ==
    IF id \in DOMAIN jobStatuses /\ jobStatuses[id] # Undefined
    THEN jobStatuses[id]
    ELSE NotApplied

\* the filters of the filteredJobs memo, in the order of the code
filterOrder ==
    <<"threshold", "keyword", "location", "mode", "experience", "source", "status">>

\* the status filter comparing the stored entry, without the default
statusFilter_noDefault(result, c) ==
    IF c.filters.status # ""
    THEN SelectSeq(result, LAMBDA job :
             job.id \in DOMAIN c.jobStatuses /\ c.jobStatuses[job.id] = c.filters.status)
    ELSE result

statusFilter(result, c) ==
    IF c.filters.status # ""
    THEN SelectSeq(result, LAMBDA job :
             statusOrDefault(c.jobStatuses, job.id) = c.filters.status)
    ELSE result

\* the threshold filter applied whenever the toggle is on
thresholdFilter_noPreferences(result, c) ==
    IF c.showOnlyMatches
    THEN SelectSeq(result, LAMBDA job : scoreOrZero(job) >= c.minMatchScore)
    ELSE result

thresholdFilter(result, c) ==
    IF c.showOnlyMatches /\ c.preferences.tag # "null"
    THEN SelectSeq(result, LAMBDA job : scoreOrZero(job) >= c.minMatchScore)
    ELSE result

\* the location filter keeping the head of the list whatever its location
locationFilter_keepsHead(result, c) ==
    IF c.filters.location # ""
    THEN SelectSeq(result, LAMBDA job :
             job = Head(result) \/ job.location = c.filters.location)
    ELSE result

locationFilter(result, c) ==
    IF c.filters.location # ""
    THEN SelectSeq(result, LAMBDA job : job.location = c.filters.location)
    ELSE result

\* one `if (..) result = result.filter(..)` of the memo; c holds what the
\* callback reads: filters, showOnlyMatches, minMatchScore, preferences and
\* jobStatuses
applyFilter(name, result, c) ==
    CASE name = "threshold" -> thresholdFilter(result, c)
      [] name = "keyword" ->
            IF c.filters.keyword # << >>
            THEN LET keyword == lower(c.filters.keyword)
                 IN  SelectSeq(result, LAMBDA job :
                         \/ includes(lower(job.title), keyword)
                         \/ includes(lower(job.company), keyword))
            ELSE result
      [] name = "location" -> locationFilter(result, c)
      [] name = "mode" ->
            IF c.filters.mode # ""
            THEN SelectSeq(result, LAMBDA job : job.mode = c.filters.mode)
            ELSE result
      [] name = "experience" ->
            IF c.filters.experience # ""
            THEN SelectSeq(result, LAMBDA job : job.experience = c.filters.experience)
            ELSE result
      [] name = "source" ->
            IF c.filters.source # ""
            THEN SelectSeq(result, LAMBDA job : job.source = c.filters.source)
            ELSE result
      [] name = "status" -> statusFilter(result, c)

\* the filters of `order` applied one after the other
RECURSIVE applyFilters(_, _, _)
applyFilters(order, result, c) ==
    IF order = << >> THEN result
    ELSE applyFilters(Tail(order), applyFilter(Head(order), result, c), c)

\* the switch without its case "oldest"
sortJobs_noOldest(key, result) ==
    IF key \in Range(sortOptions) \ {"oldest"} THEN sort(key, result) ELSE result

\* switch (filters.sort)
sortJobs(key, result) ==
    IF key \in Range(sortOptions) THEN sort(key, result) ELSE result

\* what the callback of the filteredJobs memo reads
memoInput(filters, jobsWithScores, showOnlyMatches, minMatchScore, preferences, jobStatuses) ==
    [filters |-> filters, jobsWithScores |-> jobsWithScores,
     showOnlyMatches |-> showOnlyMatches, minMatchScore |-> minMatchScore,
     preferences |-> preferences, jobStatuses |-> jobStatuses]

\* the callback of the filteredJobs memo
filteredJobs(c) ==
    sortJobs(c.filters.sort, applyFilters(filterOrder, c.jobsWithScores, c))

\* the filters of a freshly mounted dashboard
defaultFilters ==
    [keyword |-> << >>, location |-> "", mode |-> "", experience |-> "",
     source |-> "", status |-> "", sort |-> "latest"]

(* Arrays. A JavaScript array is an object: map, filter, slice and the    *)
(* spread make a new array; sort reorders the array it is called on and     *)
(* returns that same array.                                                  *)

\* the arrays of a computation: heap holds the contents of every array, env
\* the array each name is bound to. At the start there is the Job Store,
\* the array that the module data/jobs exports as `jobs`.
arraysOf(store) == [heap |-> <<store>>, env |-> ("jobs" :> 1)]

\* the contents of the array that `name` is bound to
valueOf(m, name) == m.heap[m.env[name]]

\* `name` bound to a new array of the given contents
newArray(m, name, contents) ==
    [heap |-> Append(m.heap, contents),
     env |-> (name :> (Len(m.heap) + 1)) @@ m.env]

\* a map that writes the elements it makes into the array it is called on
\* and returns that array
arrayMap_inPlace(m, from, name, contents) ==
    [heap |-> [m.heap EXCEPT ![m.env[from]] = contents],
     env |-> (name :> m.env[from]) @@ m.env]

\* name = from.map(..), where contents is the list of the objects the
\* callback makes: a new array
arrayMap(m, from, name, contents) == newArray(m, name, contents)

\* name.sort(..) with the comparator of `kind`: the array is sorted in place
arraySort(m, name, kind) == [m EXCEPT !.heap[m.env[name]] = sort(kind, @)]

\* name = to: both names are bound to one array
bind(m, name, to) == [m EXCEPT !.env = (name :> m.env[to]) @@ @]

\* the arrays after generateDigest has run on the Job Store `store`
generateDigestArrays(preferences, store, t) ==
    LET m0 == arraysOf(store)
        m1 == arrayMap(m0, "jobs", "jobsWithScores",
                       [i \in 1..Len(store) |->
                           withScore(store[i], IF preferences.tag # "null"
                                               THEN calculateMatchScore(store[i], preferences)
                                               ELSE 0)])
        m2 == bind(arraySort(m1, "jobsWithScores", "digest"), "sortedJobs", "jobsWithScores")
    IN  newArray(m2, "topJobs", slice0(valueOf(m2, "sortedJobs"), DigestSize))

\* the arrays after the jobsWithScores memo and the filteredJobs memo of the
\* dashboard `v` have run on the Job Store `store`. result starts as a copy
\* of jobsWithScores; every filter that applies binds it to a new array, and
\* the switch sorts the array it is bound to at the end.
dashboardArrays(v, store) ==
    LET m0 == arraysOf(store)
        m1 == arrayMap(m0, "jobs", "jobsWithScores", jobsWithScoresOf(v.preferences, store))
        m2 == newArray(m1, "result", valueOf(m1, "jobsWithScores"))
        c == memoInput(v.filters, valueOf(m1, "jobsWithScores"), v.showOnlyMatches,
                       minMatchScoreOf(v.preferences), v.preferences, v.jobStatuses)
        m3 == newArray(m2, "result", applyFilters(filterOrder, valueOf(m2, "result"), c))
    IN  IF v.filters.sort \in Range(sortOptions)
        THEN arraySort(m3, "result", v.filters.sort)
        ELSE m3

\* the state of the status tracker on an empty localStorage
InitStatus ==
    /\ now = 0
    /\ statusItem = NullItem
    /\ historyItem = NullItem
    /\ call = [op |-> "none"]
    /\ recorded = << >>
    /\ lastSet = [j \in TrackedJobs |-> "none"]
    /\ calls = 0

\* no page of the tracker is shown and nothing of theirs is stored
NoView == [kind |-> "none"]

InitPages ==
    /\ savedItem = NullItem
    /\ testItem = NullItem
    /\ view = NoView

InitDigest ==
    /\ tz \in {0, 1}
    /\ jobs = AllJobs
    /\ prefItem = NullItem
    /\ digestItems = {}
    /\ page = FreshPage(0)
    /\ timers = << >>
    /\ generated = {}

\* the mount effect reading the most recent stored digest, whatever its day
MountDigestPage_anyDay ==
    /\ ~page.mounted
    /\ page.inst < MaxMounts
    /\ LET stored == {r \in digestItems : r.item.tag = "json"}
           latest == CHOOSE r \in stored : \A q \in stored : q.key.day <= r.key.day
       IN  page' = [mounted |-> TRUE,
                    inst |-> page.inst + 1,
                    preferences |-> loadPreferences(prefItem),
                    hasPrefs |-> hasPreferences(prefItem),
                    recentUpdates |-> getRecentStatusUpdates(historyItem, << >>, now),
                    digest |-> IF stored # {}
                               THEN SomeDigest(latest.item.val)
                               ELSE NoDigest,
                    isGenerating |-> FALSE]
    /\ UNCHANGED <<now, statusVars, tz, jobs, prefItem, digestItems, timers, generated, pagesVars>>

\* the page is rendered and its mount effect runs
MountDigestPage ==
    /\ ~page.mounted
    /\ page.inst < MaxMounts
    /\ LET existingDigest == getItem(digestItems, getTodayKey(now, tz))
       IN  page' = [mounted |-> TRUE,
                    inst |-> page.inst + 1,
                    preferences |-> loadPreferences(prefItem),
                    hasPrefs |-> hasPreferences(prefItem),
                    recentUpdates |-> getRecentStatusUpdates(historyItem, << >>, now),
                    digest |-> IF existingDigest.tag = "json"
                               THEN SomeDigest(existingDigest.val)
                               ELSE NoDigest,
                    isGenerating |-> FALSE]
    /\ UNCHANGED <<now, statusVars, tz, jobs, prefItem, digestItems, timers, generated, pagesVars>>

\* the user leaves the page; its timers stay pending
UnmountDigestPage ==
    /\ page.mounted
    /\ page' = FreshPage(page.inst)
    /\ UNCHANGED <<now, statusVars, tz, jobs, prefItem, digestItems, timers, generated, pagesVars>>

\* the Settings page stores the preferences
SavePreferences ==
    /\ ~page.mounted
    /\ \E p \in PrefChoices :
           /\ prefItem # JSONstringify(p)
           /\ prefItem' = JSONstringify(p)
    /\ UNCHANGED <<now, statusVars, tz, jobs, digestItems, page, timers, generated, pagesVars>>

\* the Generate button is rendered when the page has preferences and no
\* digest, and is enabled when no generation is under way
HandleGenerateDigest ==
    /\ page.mounted
    /\ page.hasPrefs
    /\ page.digest.tag = "null"
    /\ ~page.isGenerating
    /\ calls < MaxClicks
    /\ calls' = calls + 1
    /\ page' = [page EXCEPT !.isGenerating = TRUE]
    /\ timers' = Append(timers, [preferences |-> page.preferences, inst |-> page.inst,
                                 at |-> now])
    /\ UNCHANGED <<now, statusItem, historyItem, call, recorded, lastSet,
                   tz, jobs, prefItem, digestItems, generated, pagesVars>>

\* the callback reading the preferences stored when it runs, not those of
\* the render whose button was clicked
TimerFires_storedPreferences ==
    /\ timers # << >>
    /\ LET timer == Head(timers)
           newDigest == generateDigest(loadPreferences(prefItem), jobs, now)
           todayKey == getTodayKey(now, tz)
           day == (now + tz) \div TicksPerDay
           before == {g \in generated : g.day = day}
       IN  /\ digestItems' = setItem(digestItems, todayKey, JSONstringify(newDigest))
           /\ page' = IF page.mounted /\ page.inst = timer.inst
                      THEN [page EXCEPT !.digest = SomeDigest(newDigest),
                                        !.isGenerating = FALSE]
                      ELSE page
           /\ generated' = (generated \ before)
                            \cup {[day |-> day, digest |-> newDigest,
                                   n |-> IF before = {} THEN 1
                                         ELSE (CHOOSE g \in before : TRUE).n + 1,
                                   prev |-> IF before = {} THEN newDigest
                                            ELSE (CHOOSE g \in before : TRUE).digest]}
    /\ timers' = Tail(timers)
    /\ UNCHANGED <<now, statusVars, tz, jobs, prefItem, pagesVars>>

\* the callback of setTimeout runs
TimerFires ==
    /\ timers # << >>
    /\ LET timer == Head(timers)
           newDigest == generateDigest(timer.preferences, jobs, now)
           todayKey == getTodayKey(now, tz)
           day == (now + tz) \div TicksPerDay
           before == {g \in generated : g.day = day}
       IN  /\ digestItems' = setItem(digestItems, todayKey, JSONstringify(newDigest))
           /\ page' = IF page.mounted /\ page.inst = timer.inst
                      THEN [page EXCEPT !.digest = SomeDigest(newDigest),
                                        !.isGenerating = FALSE]
                      ELSE page
           /\ generated' = (generated \ before)
                            \cup {[day |-> day, digest |-> newDigest,
                                   n |-> IF before = {} THEN 1
                                         ELSE (CHOOSE g \in before : TRUE).n + 1,
                                   prev |-> IF before = {} THEN newDigest
                                            ELSE (CHOOSE g \in before : TRUE).digest]}
    /\ timers' = Tail(timers)
    /\ UNCHANGED <<now, statusVars, tz, jobs, prefItem, pagesVars>>

TimePasses ==
    /\ now < MaxNow
    /\ now' = now + 1
    /\ UNCHANGED <<statusVars, digestVars, pagesVars>>

NextDigest ==
    \/ MountDigestPage
    \/ UnmountDigestPage
    \/ SavePreferences
    \/ HandleGenerateDigest
    \/ TimerFires
    \/ TimePasses

InitDigestPage == InitStatus /\ InitDigest /\ InitPages

SpecDigest == InitDigestPage /\ [][NextDigest]_vars

\* a step that takes the first pending callback off the timers: among the
\* steps of NextDigest these are the steps of TimerFires, which is enabled
\* whenever a callback is pending
RunsCallback == timers # << >> /\ timers' = Tail(timers)

\* the Digest page was opened and closed before, without a click on
\* Generate, in a time zone ahead of UTC; two more mounts are followed
InitDelay ==
    /\ InitStatus
    /\ InitPages
    /\ tz = 1
    /\ jobs = AllJobs
    /\ prefItem = NullItem
    /\ digestItems = {}
    /\ page = FreshPage(MaxMounts - 2)
    /\ timers = << >>
    /\ generated = {}

\* the browser runs the callbacks of setTimeout
SpecDelay == InitDelay /\ [][NextDigest]_vars /\ WF_timers(RunsCallback)

----------------------------------------------------------------------------
(* SpecGenerate: generateDigest on any Job Store and any preferences *)

AnyPreferences == PrefChoices \cup {NullPrefs}

InitGenerate ==
    /\ InitStatus
    /\ tz = 0
    /\ jobs \in {SubSeq(AllJobs, 1, n) : n \in 0..NumJobs}
    /\ prefItem = NullItem
    /\ digestItems = {}
    /\ page = FreshPage(0)
    /\ timers = << >>
    /\ generated = {}
    /\ InitPages

GenerateDigest ==
    \E preferences \in AnyPreferences :
        /\ call' = [op |-> "generateDigest", preferences |-> preferences,
                    result |-> generateDigest(preferences, jobs, now)]
        /\ UNCHANGED <<now, statusItem, historyItem, recorded, lastSet, calls, digestVars, pagesVars>>

NextGenerate ==
    \/ GenerateDigest
    \/ TimePasses

SpecGenerate == InitGenerate /\ [][NextGenerate]_vars

----------------------------------------------------------------------------
(* Calls of the status tracker *)

\* whether saveJobStatus(jobId, status, ..) records a change: the status
\* differs from the stored one and is not the default
Recording(jobId, status) ==
    /\ loadJobStatuses(statusItem)[jobId] # status
    /\ status # NotApplied

DoSave(jobId, status, jobTitle, company) ==
    LET r == saveJobStatus(statusItem, historyItem, jobId, status, jobTitle, company, now)
        entry == [jobId |-> jobId, jobTitle |-> jobTitle, company |-> company,
                  status |-> status, changedAt |-> toISOString(now)]
    IN  /\ statusItem' = r.status
        /\ historyItem' = r.history
        /\ call' = [op |-> "saveJobStatus", jobId |-> jobId, status |-> status,
                    jobTitle |-> jobTitle, company |-> company,
                    stored |-> loadJobStatuses(statusItem)[jobId],
                    found |-> statusItem.tag]
        /\ recorded' = IF Recording(jobId, status) THEN <<entry>> \o recorded ELSE recorded
        /\ lastSet' = [lastSet EXCEPT ![jobId] = status]
        /\ UNCHANGED <<now, digestVars, pagesVars>>

DoClear ==
    /\ statusItem' = clearJobStatuses(statusItem)
    /\ call' = [op |-> "clearJobStatuses"]
    /\ lastSet' = [j \in TrackedJobs |-> "none"]
    /\ UNCHANGED <<now, historyItem, recorded, digestVars, pagesVars>>

DoAdvance(d) ==
    /\ now' = now + d
    /\ call' = [op |-> "clock"]
    /\ UNCHANGED <<statusItem, historyItem, recorded, lastSet, digestVars, pagesVars>>

\* the Digest page is not used
InitIdle ==
    /\ tz = 0
    /\ jobs = AllJobs
    /\ prefItem = NullItem
    /\ digestItems = {}
    /\ page = FreshPage(0)
    /\ timers = << >>
    /\ generated = {}

InitTracker == InitStatus /\ InitIdle /\ InitPages

----------------------------------------------------------------------------
(* SpecStatus: any calls of the status tracker, in any order *)

\* a page's handleStatusChange: the title and company are the job's
SaveJobStatus ==
    \E jobId \in TrackedJobs, status \in JobStatus :
        /\ calls < MaxCalls
        /\ calls' = calls + 1
        /\ DoSave(jobId, status, TitleOf(jobId), CompanyOf(jobId))

ClearJobStatuses ==
    /\ calls < MaxCalls
    /\ calls' = calls + 1
    /\ DoClear

AdvanceClock ==
    \E d \in {1, DefaultDays * TicksPerDay} :
        /\ calls < MaxCalls
        /\ calls' = calls + 1
        /\ DoAdvance(d)

GetRecentStatusUpdates ==
    \E args \in {<< >>, <<0>>, <<1>>} :
        /\ call' = [op |-> "getRecentStatusUpdates", args |-> args,
                    result |-> getRecentStatusUpdates(historyItem, args, now)]
        /\ UNCHANGED <<now, statusItem, historyItem, recorded, lastSet, calls, digestVars, pagesVars>>

NextStatus ==
    \/ SaveJobStatus
    \/ ClearJobStatuses
    \/ AdvanceClock
    \/ GetRecentStatusUpdates

SpecStatus == InitTracker /\ [][NextStatus]_vars

----------------------------------------------------------------------------
(* SpecLong: the user cycles the first job through the non-default         *)
(* statuses, MaxChanges times, with MaxFree other calls in between         *)

CycledJob == 1

NextOption(status) ==
    IF status = "Applied" THEN "Rejected"
    ELSE IF status = "Rejected" THEN "Selected"
    ELSE "Applied"

CycleStatus ==
    /\ Len(recorded) < MaxChanges
    /\ DoSave(CycledJob, NextOption(getJobStatus(statusItem, CycledJob)),
              TitleOf(CycledJob), CompanyOf(CycledJob))
    /\ UNCHANGED calls

\* any call of saveJobStatus, with the title and company of any job
FreeSave ==
    \E jobId \in TrackedJobs, status \in JobStatus, other \in TrackedJobs :
        /\ calls < MaxFree
        /\ calls' = calls + 1
        /\ DoSave(jobId, status, TitleOf(other), CompanyOf(other))

FreeClear ==
    /\ calls < MaxFree
    /\ calls' = calls + 1
    /\ DoClear

FreeAdvance ==
    /\ calls < MaxFree
    /\ calls' = calls + 1
    /\ DoAdvance(1)

NextLong ==
    \/ CycleStatus
    \/ FreeSave
    \/ FreeClear
    \/ FreeAdvance

SpecLong == InitTracker /\ [][NextLong]_vars

----------------------------------------------------------------------------
(* SpecFilter: the filteredJobs memo of a rendered dashboard, on any filters, *)
(* preferences and statuses                                                  *)

\* no state update is waiting for the next render
NoUpdates == [tag |-> "none"]

\* the state of a Dashboard page as last rendered; filteredJobs is the value
\* its memo holds, effects are the effects of the last render that have not run
\* yet and updates are the state updates waiting for the next render. Since
\* the mount: atMount is what was stored under "jnt_saved_jobs" at that time,
\* wiped tells whether a save effect has replaced a stored list by another
\* one, and edited whether the user has saved or unsaved a job.
Dashboard(savedJobIds, preferences, showOnlyMatches, jobStatuses, filters, memo, effects) ==
    [kind |-> "dashboard", savedJobIds |-> savedJobIds, preferences |-> preferences,
     showOnlyMatches |-> showOnlyMatches, jobStatuses |-> jobStatuses,
     filters |-> filters, filteredJobs |-> memo, effects |-> effects,
     updates |-> NoUpdates, atMount |-> NullItem, wiped |-> FALSE, edited |-> FALSE]

\* what a render of the dashboard `v` hands to the filteredJobs memo
dashboardInput(v) ==
    memoInput(v.filters, jobsWithScoresOf(v.preferences, jobs), v.showOnlyMatches,
              minMatchScoreOf(v.preferences), v.preferences, v.jobStatuses)

\* preferences stored without a minMatchScore
PrefsWithoutMin ==
    [tag |-> "prefs", roleKeywords |-> {"backend"}, locations |-> {"Remote"},
     skills |-> {"Go"}]

\* what the user types into the search box
KeywordChoices == {<< >>, <<"ENGINEER">>, <<"acme">>}

\* the filters the user can select
FilterChoices ==
    [keyword : KeywordChoices, location : {"", "Pune", "Remote"}, mode : {"", "Onsite"},
     experience : {"", "3-5"}, source : {"", "LinkedIn"},
     status : {"", "Not Applied", "Applied"}, sort : Range(sortOptions)]

\* status maps the tracker can have stored
StatusChoices ==
    { EmptyStatuses,
      [j \in TrackedJobs |-> IF j = 1 THEN "Applied" ELSE Undefined],
      [j \in TrackedJobs |-> IF j = 1 THEN "Not Applied" ELSE "Rejected"] }

InitFilter ==
    /\ InitStatus
    /\ InitIdle
    /\ savedItem = NullItem
    /\ testItem = NullItem
    /\ \E filters \in FilterChoices, preferences \in AnyPreferences \cup {PrefsWithoutMin},
          showOnlyMatches \in BOOLEAN, jobStatuses \in StatusChoices :
           view = Dashboard(<< >>, preferences, showOnlyMatches, jobStatuses, filters,
                            << >>, << >>)

\* the callback of the memo runs
FilterJobs ==
    /\ view.kind = "dashboard"
    /\ call' = [op |-> "filteredJobs", result |-> filteredJobs(dashboardInput(view))]
    /\ UNCHANGED <<now, statusItem, historyItem, recorded, lastSet, calls, digestVars, pagesVars>>

NextFilter ==
    \/ FilterJobs

SpecFilter == InitFilter /\ [][NextFilter]_vars

----------------------------------------------------------------------------
(* SpecFilterOrder: the filters of the memo applied one at a time, in any   *)
(* order                                                                     *)

InitFilterOrder ==
    /\ InitStatus
    /\ InitIdle
    /\ savedItem = NullItem
    /\ testItem = NullItem
    /\ \E filters \in {f \in FilterChoices : f.sort = defaultFilters.sort},
          preferences \in {NullPrefs, PrefsOf({"backend", "engineer"}, {"Remote"}, {"Go", "SQL"}, 60)},
          showOnlyMatches \in BOOLEAN,
          jobStatuses \in StatusChoices :
           view = Dashboard(<< >>, preferences, showOnlyMatches, jobStatuses, filters,
                            << >>, << >>)

\* the filters applied so far, and the list they have left
appliedFilters == IF call.op = "applyFilter" THEN call.applied ELSE {}
resultSoFar ==
    IF call.op = "applyFilter" THEN call.result
    ELSE jobsWithScoresOf(view.preferences, jobs)

\* one more filter, any of those not applied yet
ApplyFilter ==
    \E name \in Range(filterOrder) \ appliedFilters :
        /\ call' = [op |-> "applyFilter", applied |-> appliedFilters \cup {name},
                    result |-> applyFilter(name, resultSoFar, dashboardInput(view))]
        /\ UNCHANGED <<now, statusItem, historyItem, recorded, lastSet, calls, digestVars, pagesVars>>

NextFilterOrder ==
    \/ ApplyFilter

SpecFilterOrder == InitFilterOrder /\ [][NextFilterOrder]_vars

----------------------------------------------------------------------------
(* SpecPages: the Dashboard and the Saved page, one at a time in the tab.    *)
(* A mount is the first render, the load effect, the save effect, the        *)
(* render of the loaded state and the save effect of that render; the user   *)
(* acts on a page whose effects have run.                                    *)

\* the state of a Saved page as last rendered
SavedPage(savedJobIds, jobStatuses, effects) ==
    [kind |-> "saved", savedJobIds |-> savedJobIds, jobStatuses |-> jobStatuses,
     effects |-> effects, updates |-> NoUpdates, atMount |-> NullItem,
     wiped |-> FALSE, edited |-> FALSE]

\* every effect of the last render has run and no state update is waiting
Quiet(v) == v.kind # "none" /\ v.effects = << >> /\ v.updates.tag = "none"

\* the jobs whose cards the page `v` shows
shownJobs(v) ==
    IF v.kind = "dashboard" THEN {v.filteredJobs[i].id : i \in 1..Len(v.filteredJobs)}
    ELSE {jobs[i].id : i \in {k \in 1..Len(jobs) : jobs[k].id \in Range(v.savedJobIds)}}

\* the first render of a page, from the initial values of useState
firstRender(kind) ==
    IF kind = "dashboard"
    THEN LET v == Dashboard(<< >>, NullPrefs, FALSE, EmptyStatuses, defaultFilters,
                            << >>, <<"load", "save">>)
         IN  [v EXCEPT !.filteredJobs = filteredJobs(dashboardInput(v))]
    ELSE SavedPage(<< >>, EmptyStatuses, <<"load", "save">>)

InitTab ==
    /\ InitStatus
    /\ InitIdle
    /\ savedItem \in {NullItem, JSONstringify(<<1>>), JSONstringify(<<2, 1>>)}
    /\ testItem = NullItem
    /\ view = NoView

\* the user opens or reloads the Dashboard or the Saved page
OpenPage ==
    \E kind \in {"dashboard", "saved"} :
        /\ view.kind = "none"
        /\ view' = [firstRender(kind) EXCEPT !.atMount = savedItem]
        /\ UNCHANGED <<now, statusVars, digestVars, savedItem, testItem>>

\* the effect that loads the saved jobs, the preferences and the statuses
LoadEffect ==
    /\ view.kind \in {"dashboard", "saved"}
    /\ view.effects # << >> /\ Head(view.effects) = "load"
    /\ view' = [view EXCEPT
                   !.effects = Tail(@),
                   !.updates = [tag |-> "load",
                                setsSaved |-> savedItem.tag # "null",
                                savedJobIds |-> IF savedItem.tag = "json"
                                                THEN savedItem.val ELSE << >>,
                                preferences |-> loadPreferences(prefItem),
                                jobStatuses |-> loadJobStatuses(statusItem)]]
    /\ UNCHANGED <<now, statusVars, digestVars, savedItem, testItem>>

\* the effect that stores savedJobIds, as the render it belongs to saw it
SaveEffect ==
    /\ view.kind \in {"dashboard", "saved"}
    /\ view.effects # << >> /\ Head(view.effects) = "save"
    /\ savedItem' = JSONstringify(view.savedJobIds)
    /\ view' = [view EXCEPT !.effects = Tail(@),
                            !.wiped = @ \/ (savedItem.tag = "json" /\ savedItem' # savedItem)]
    /\ UNCHANGED <<now, statusVars, digestVars, testItem>>

\* the effects a render schedules without the dependency list of the save effect
effectsOfRender_never(savedChanged) == << >>

\* the effects a render schedules: the save effect when savedJobIds changed
effectsOfRender(savedChanged) == IF savedChanged THEN <<"save">> ELSE << >>

\* the render of the state updates of the load effect; the filteredJobs memo
\* runs again when one of its dependencies changed, which here is the
\* preferences and what is derived from them
Rerender ==
    /\ view.kind \in {"dashboard", "saved"}
    /\ view.effects = << >>
    /\ view.updates.tag = "load"
    /\ LET u == view.updates
           loaded == [view EXCEPT
                        !.savedJobIds = IF u.setsSaved THEN u.savedJobIds ELSE @,
                        !.jobStatuses = u.jobStatuses,
                        !.updates = NoUpdates,
                        !.effects = effectsOfRender(u.setsSaved)]
           rendered == [loaded EXCEPT !.preferences = u.preferences]
       IN  view' = IF view.kind = "saved" THEN loaded
                   ELSE IF u.preferences.tag # "null" \/ view.preferences.tag # "null"
                   THEN [rendered EXCEPT !.filteredJobs = filteredJobs(dashboardInput(rendered))]
                   ELSE rendered
    /\ UNCHANGED <<now, statusVars, digestVars, savedItem, testItem>>

\* the updater of handleSaveJob adding the id whether or not it is saved
handleSaveJob_alwaysAdds(prev, jobId) == Append(prev, jobId)

\* the updater that handleSaveJob hands to setSavedJobIds
handleSaveJob(prev, jobId) ==
    IF jobId \in Range(prev)
    THEN SelectSeq(prev, LAMBDA id : id # jobId)
    ELSE Append(prev, jobId)

\* handleSaveJob and the render that follows it
HandleSaveJob ==
    \E jobId \in TrackedJobs :
        /\ Quiet(view)
        /\ view.kind \in {"dashboard", "saved"}
        /\ jobId \in shownJobs(view)
        /\ view' = [view EXCEPT
                       !.savedJobIds = handleSaveJob(@, jobId),
                       !.effects = effectsOfRender(TRUE),
                       !.edited = TRUE]
        /\ call' = [op |-> "handleSaveJob", jobId |-> jobId, prev |-> view.savedJobIds]
        /\ UNCHANGED <<now, statusItem, historyItem, recorded, lastSet, calls,
                       digestVars, savedItem, testItem>>

\* handleStatusChange without setJobStatuses
afterStatusChange_noReload(v, sItem) == v

\* setJobStatuses(loadJobStatuses()) and the render that follows it: no
\* dependency of the filteredJobs memo has changed, so the memo keeps its value
afterStatusChange(v, sItem) == [v EXCEPT !.jobStatuses = loadJobStatuses(sItem)]

\* the user selects another status on the card of a job: handleStatusSelect
\* of the card, then handleStatusChange of the page
HandleStatusChange ==
    \E jobId \in TrackedJobs, newStatus \in JobStatus :
        /\ Quiet(view)
        /\ view.kind \in {"dashboard", "saved"}
        /\ jobId \in shownJobs(view)
        /\ newStatus # statusOrDefault(view.jobStatuses, jobId)
        /\ calls < MaxEvents
        /\ calls' = calls + 1
        /\ LET r == saveJobStatus(statusItem, historyItem, jobId, newStatus,
                                  TitleOf(jobId), CompanyOf(jobId), now)
               entry == [jobId |-> jobId, jobTitle |-> TitleOf(jobId),
                         company |-> CompanyOf(jobId), status |-> newStatus,
                         changedAt |-> toISOString(now)]
           IN  /\ statusItem' = r.status
               /\ historyItem' = r.history
               /\ recorded' = IF Recording(jobId, newStatus)
                               THEN <<entry>> \o recorded ELSE recorded
               /\ view' = afterStatusChange(view, r.status)
        /\ lastSet' = [lastSet EXCEPT ![jobId] = newStatus]
        /\ call' = [op |-> "handleStatusChange", jobId |-> jobId, status |-> newStatus,
                    page |-> view.kind, found |-> statusItem.tag]
        /\ UNCHANGED <<now, digestVars, savedItem, testItem>>

\* handleFilterChange and the render that follows it: filters is a new
\* object, so the filteredJobs memo runs again
HandleFilterChange ==
    \E change \in ({"status"} \X ({""} \cup JobStatus)) \cup ({"location"} \X {"", "Remote"}) :
        /\ Quiet(view)
        /\ view.kind = "dashboard"
        /\ view.filters[change[1]] # change[2]
        /\ LET v == [view EXCEPT !.filters[change[1]] = change[2]]
           IN  view' = [v EXCEPT !.filteredJobs = filteredJobs(dashboardInput(v))]
        /\ UNCHANGED <<now, statusVars, digestVars, savedItem, testItem>>

\* the toggle, rendered when preferences are stored, and the render that
\* follows it
ToggleMatches ==
    /\ Quiet(view)
    /\ view.kind = "dashboard"
    /\ hasPreferences(prefItem)
    /\ LET v == [view EXCEPT !.showOnlyMatches = ~@]
       IN  view' = [v EXCEPT !.filteredJobs = filteredJobs(dashboardInput(v))]
    /\ UNCHANGED <<now, statusVars, digestVars, savedItem, testItem>>

\* the user leaves the page or closes the tab
ClosePage ==
    /\ Quiet(view)
    /\ view' = NoView
    /\ UNCHANGED <<now, statusVars, digestVars, savedItem, testItem>>

\* the user stores preferences on the Settings page
StorePreferences ==
    /\ view.kind = "none"
    /\ prefItem = NullItem
    /\ prefItem' = JSONstringify(PrefsOf({"backend", "engineer"}, {"Remote"}, {"Go", "SQL"}, 60))
    /\ UNCHANGED <<now, statusVars, tz, jobs, digestItems, page, timers, generated, pagesVars>>

\* the user tracks statuses and filters the dashboard
NextTab ==
    \/ OpenPage
    \/ LoadEffect
    \/ SaveEffect
    \/ Rerender
    \/ HandleStatusChange
    \/ HandleFilterChange
    \/ ToggleMatches
    \/ ClosePage
    \/ StorePreferences

SpecPages == InitTab /\ [][NextTab]_vars

\* the user saves and unsaves jobs
NextSaved ==
    \/ OpenPage
    \/ LoadEffect
    \/ SaveEffect
    \/ Rerender
    \/ HandleSaveJob
    \/ ClosePage

\* React runs the effects of a render and renders the state updates waiting
SpecSaved ==
    /\ InitTab
    /\ [][NextSaved]_vars
    /\ WF_vars(LoadEffect)
    /\ WF_vars(SaveEffect)
    /\ WF_vars(Rerender)

----------------------------------------------------------------------------
(* SpecShip: the Test Checklist page (jt/07-test/page.tsx) and the Ship page *)
(* (ShipLockPage of digest/page.tsx), one at a time in the tab               *)

testItems ==
    <<"preferences-persist", "match-score", "show-matches", "save-persist", "apply-tab",
      "status-persist", "status-filter", "digest-generate", "digest-persist",
      "no-console-errors">>

\* a checkedItems object: the ids it has an entry for, and those whose entry
\* is true
CheckedItems(keys, on) == [keys |-> keys, on |-> on]

\* the count taken over all the entries, true or false
passedCountOf_entries(checkedItems) == Cardinality(checkedItems.keys)

\* Object.values(checkedItems).filter(Boolean).length
passedCountOf(checkedItems) == Cardinality(checkedItems.on)

\* the state of a Test Checklist page as last rendered
ChecklistPage(checkedItems, effects) ==
    [kind |-> "checklist", checkedItems |-> checkedItems,
     passedCount |-> passedCountOf(checkedItems),
     effects |-> effects, updates |-> NoUpdates]

\* the state of a Ship page as last rendered
ShipPage(passedCount, isLoading, effects) ==
    [kind |-> "ship", passedCount |-> passedCount, isLoading |-> isLoading,
     effects |-> effects, updates |-> NoUpdates]

InitShip ==
    /\ InitStatus
    /\ InitIdle
    /\ InitPages

\* the user opens the Test Checklist page: its first render
OpenChecklist ==
    /\ view.kind = "none"
    /\ view' = ChecklistPage(CheckedItems({}, {}), <<"load", "save">>)
    /\ UNCHANGED <<now, statusVars, digestVars, savedItem, testItem>>

\* the effect that loads the checklist
ChecklistLoadEffect ==
    /\ view.kind = "checklist"
    /\ view.effects # << >> /\ Head(view.effects) = "load"
    /\ view' = [view EXCEPT
                   !.effects = Tail(@),
                   !.updates = IF testItem.tag = "null" THEN NoUpdates
                               ELSE [tag |-> "load",
                                     checkedItems |-> IF testItem.tag = "json"
                                                      THEN testItem.val
                                                      ELSE CheckedItems({}, {})]]
    /\ UNCHANGED <<now, statusVars, digestVars, savedItem, testItem>>

\* the effect that stores checkedItems, as the render it belongs to saw it
ChecklistSaveEffect ==
    /\ view.kind = "checklist"
    /\ view.effects # << >> /\ Head(view.effects) = "save"
    /\ testItem' = JSONstringify(view.checkedItems)
    /\ view' = [view EXCEPT !.effects = Tail(@)]
    /\ UNCHANGED <<now, statusVars, digestVars, savedItem>>

\* the render of the loaded checklist; checkedItems is a new object, so the
\* save effect runs after it
ChecklistRerender ==
    /\ view.kind = "checklist"
    /\ view.effects = << >>
    /\ view.updates.tag = "load"
    /\ view' = ChecklistPage(view.updates.checkedItems, <<"save">>)
    /\ UNCHANGED <<now, statusVars, digestVars, savedItem, testItem>>

\* handleToggle, the render that follows it and the save effect of that render
HandleToggle ==
    \E id \in Range(testItems) :
        /\ view.kind = "checklist"
        /\ Quiet(view)
        /\ LET prev == view.checkedItems
               toggled == CheckedItems(prev.keys \cup {id},
                                       IF id \in prev.on THEN prev.on \ {id}
                                       ELSE prev.on \cup {id})
           IN  /\ view' = ChecklistPage(toggled, << >>)
               /\ testItem' = JSONstringify(toggled)
        /\ UNCHANGED <<now, statusVars, digestVars, savedItem>>

\* handleReset, the render that follows it and the save effect of that render
HandleReset ==
    /\ view.kind = "checklist"
    /\ Quiet(view)
    /\ view' = ChecklistPage(CheckedItems({}, {}), << >>)
    /\ testItem' = JSONstringify(CheckedItems({}, {}))
    /\ UNCHANGED <<now, statusVars, digestVars, savedItem>>

\* the user opens the Ship page: its first render shows Loading...
OpenShip ==
    /\ view.kind = "none"
    /\ view' = ShipPage(0, TRUE, <<"load">>)
    /\ UNCHANGED <<now, statusVars, digestVars, savedItem, testItem>>

\* the mount effect of the Ship page
ShipLoadEffect ==
    /\ view.kind = "ship"
    /\ view.effects # << >> /\ Head(view.effects) = "load"
    /\ view' = [view EXCEPT
                   !.effects = Tail(@),
                   !.updates = [tag |-> "load",
                                passedCount |-> IF testItem.tag = "json"
                                                THEN passedCountOf(testItem.val)
                                                ELSE IF testItem.tag = "bad" THEN 0
                                                ELSE view.passedCount]]
    /\ UNCHANGED <<now, statusVars, digestVars, savedItem, testItem>>

\* the render of the count: the page is locked or ready to ship
ShipRerender ==
    /\ view.kind = "ship"
    /\ view.effects = << >>
    /\ view.updates.tag = "load"
    /\ view' = ShipPage(view.updates.passedCount, FALSE, << >>)
    /\ UNCHANGED <<now, statusVars, digestVars, savedItem, testItem>>

\* allTestsPassed on a page that is not loading
readyToShip(v) == v.kind = "ship" /\ ~v.isLoading /\ v.passedCount = TOTAL_TESTS

NextShip ==
    \/ OpenChecklist
    \/ ChecklistLoadEffect
    \/ ChecklistSaveEffect
    \/ ChecklistRerender
    \/ HandleToggle
    \/ HandleReset
    \/ OpenShip
    \/ ShipLoadEffect
    \/ ShipRerender
    \/ ClosePage

SpecShip == InitShip /\ [][NextShip]_vars

----------------------------------------------------------------------------
(* SpecCorrupt: the pages and the status tracker on a localStorage in which  *)
(* some entries hold text that is not JSON, as another script of the origin  *)
(* or the user may have stored it                                            *)

InitCorrupt ==
    /\ now = 0
    /\ statusItem \in {NullItem, BadItem}
    /\ historyItem \in {NullItem, BadItem}
    /\ call = [op |-> "none"]
    /\ recorded = << >>
    /\ lastSet = [j \in TrackedJobs |-> "none"]
    /\ calls = 0
    /\ tz = 0
    /\ jobs = AllJobs
    /\ prefItem = NullItem
    /\ digestItems \in {{}, {[key |-> getTodayKey(0, 0), item |-> BadItem]}}
    /\ page = FreshPage(0)
    /\ timers = << >>
    /\ generated = {}
    /\ savedItem \in {NullItem, BadItem}
    /\ testItem \in {NullItem, BadItem}
    /\ view = NoView

\* a call of loadJobStatuses
LoadJobStatuses ==
    /\ call' = [op |-> "loadJobStatuses", result |-> loadJobStatuses(statusItem)]
    /\ UNCHANGED <<now, statusItem, historyItem, recorded, lastSet, calls, digestVars, pagesVars>>

\* a call of loadStatusHistory
LoadStatusHistory ==
    /\ call' = [op |-> "loadStatusHistory", result |-> loadStatusHistory(historyItem)]
    /\ UNCHANGED <<now, statusItem, historyItem, recorded, lastSet, calls, digestVars, pagesVars>>

NextCorrupt ==
    \/ LoadJobStatuses
    \/ LoadStatusHistory
    \/ OpenPage
    \/ LoadEffect
    \/ SaveEffect
    \/ Rerender
    \/ HandleStatusChange
    \/ OpenChecklist
    \/ ChecklistLoadEffect
    \/ ChecklistSaveEffect
    \/ ChecklistRerender
    \/ MountDigestPage

SpecCorrupt == InitCorrupt /\ [][NextCorrupt]_vars

----------------------------------------------------------------------------
(* SpecScore: the scores of the dashboard's jobsWithScores memo and of       *)
(* generateDigest, on any Job Store and any preferences                      *)

\* a dashboard rendered with the stored preferences loaded
RenderDashboard ==
    \E preferences \in AnyPreferences \cup {PrefsWithoutMin} :
        /\ LET v == Dashboard(<< >>, preferences, FALSE, EmptyStatuses, defaultFilters,
                               << >>, << >>)
           IN  view' = [v EXCEPT !.filteredJobs = filteredJobs(dashboardInput(v))]
        /\ UNCHANGED <<now, statusVars, digestVars, savedItem, testItem>>

NextScore ==
    \/ GenerateDigest
    \/ RenderDashboard
    \/ TimePasses

SpecScore == InitGenerate /\ [][NextScore]_vars

----------------------------------------------------------------------------
(* SpecCopy: the Digest page with its Copy Digest to Clipboard button        *)

\* the button is rendered for a digest with a match; the text goes to the
\* clipboard
HandleCopyToClipboard ==
    /\ page.mounted
    /\ page.digest.tag = "digest"
    /\ hasMatches(page.digest)
    /\ call' = [op |-> "formatDigestAsText", digest |-> page.digest.val, at |-> now,
                result |-> formatDigestAsText(page.digest.val, now, tz)]
    /\ UNCHANGED <<now, statusItem, historyItem, recorded, lastSet, calls, digestVars, pagesVars>>

NextCopy ==
    \/ MountDigestPage
    \/ SavePreferences
    \/ HandleGenerateDigest
    \/ TimerFires
    \/ TimePasses
    \/ HandleCopyToClipboard

SpecCopy == InitDigestPage /\ [][NextCopy]_vars

----------------------------------------------------------------------------
(* SpecStore: the Job Store under the operations that read it or work on    *)
(* lists made from it: the memos of the dashboard, generateDigest, the save *)
(* toggle and the status change                                              *)

\* a dashboard mounted on a localStorage that holds at most preferences,
\* with its effects run, and no Digest page; one change of a status is left
InitStore ==
    /\ now = 0
    /\ statusItem = NullItem
    /\ historyItem = NullItem
    /\ call = [op |-> "none"]
    /\ recorded = << >>
    /\ lastSet = [j \in TrackedJobs |-> "none"]
    /\ calls = MaxEvents - 1
    /\ tz = 0
    /\ jobs = AllJobs
    /\ prefItem \in {NullItem,
                     JSONstringify(PrefsOf({"backend", "engineer"}, {"Remote"}, {"Go", "SQL"}, 60))}
    /\ digestItems = {}
    /\ page = FreshPage(0)
    /\ timers = << >>
    /\ generated = {}
    /\ savedItem = JSONstringify(<< >>)
    /\ testItem = NullItem
    /\ LET v == Dashboard(<< >>, loadPreferences(prefItem), FALSE, EmptyStatuses,
                          defaultFilters, << >>, << >>)
       IN  view = [v EXCEPT !.filteredJobs = filteredJobs(dashboardInput(v))]

\* handleFilterChange with the sort or the location selected in the filter
\* bar, and the render that follows it: the filteredJobs memo runs again, on
\* the arrays of the page
HandleSortChange ==
    \E change \in ({"sort"} \X Range(sortOptions)) \cup ({"location"} \X {"", "Remote"}) :
        /\ Quiet(view)
        /\ view.kind = "dashboard"
        /\ view.filters[change[1]] # change[2]
        /\ LET v == [view EXCEPT !.filters[change[1]] = change[2]]
               m == dashboardArrays(v, jobs)
           IN  /\ view' = [v EXCEPT !.filteredJobs = valueOf(m, "result")]
               /\ jobs' = valueOf(m, "jobs")
        /\ UNCHANGED <<now, statusVars, tz, prefItem, digestItems, page, timers, generated,
                       savedItem, testItem>>

\* generateDigest called with the stored preferences, on the arrays it makes
CallGenerateDigest ==
    /\ call.op # "generateDigest"
    /\ LET preferences == loadPreferences(prefItem)
           m == generateDigestArrays(preferences, jobs, now)
       IN  /\ call' = [op |-> "generateDigest", preferences |-> preferences,
                       result |-> [date |-> toISOString(now).day,
                                   jobs |-> valueOf(m, "topJobs"),
                                   generatedAt |-> toISOString(now)]]
           /\ jobs' = valueOf(m, "jobs")
    /\ UNCHANGED <<now, statusItem, historyItem, recorded, lastSet, calls,
                   tz, prefItem, digestItems, page, timers, generated, pagesVars>>

NextStore ==
    \/ HandleSortChange
    \/ CallGenerateDigest
    \/ HandleSaveJob
    \/ SaveEffect
    \/ HandleStatusChange

SpecStore == InitStore /\ [][NextStore]_vars

----------------------------------------------------------------------------
(* The status tracker's properties *)

history == loadStatusHistory(historyItem)

IsSave(c) == c.op = "saveJobStatus"

\* C1: after any sequence of saveJobStatus and clearJobStatuses calls from
\* an empty store, the persisted history holds at most 20 entries.
C1_HistoryAtMost20 == Len(history) <= 20

\* more than 20 changes were recorded, the status map was then cleared,
\* and the history is full
C1_Witness ==
    /\ Len(recorded) > 20
    /\ Len(history) = 20
    /\ call.op = "clearJobStatuses"

\* C2: a saveJobStatus with a status that differs from the stored one and
\* is not Not Applied puts the entry {jobId, title, company, status, now}
\* at the head of the history, followed by the previous history in its
\* order, cut to the first 20 entries.
C2_AddsOneEntryAtHead ==
    [][ (/\ IsSave(call')
         /\ loadJobStatuses(statusItem)[call'.jobId] # call'.status
         /\ call'.status # "Not Applied")
        => LET old == loadStatusHistory(historyItem)
               new == loadStatusHistory(historyItem')
           IN  /\ Len(new) = Min(Len(old) + 1, 20)
               /\ new[1].jobId = call'.jobId
               /\ new[1].jobTitle = call'.jobTitle
               /\ new[1].company = call'.company
               /\ new[1].status = call'.status
               /\ parseDate(new[1].changedAt) = now
               /\ \A i \in 2..Len(new) : new[i] = old[i - 1] ]_vars

\* such a call has acted on a full history, with a title that is not the
\* job's own
C2_Witness ==
    /\ IsSave(call)
    /\ call.stored # call.status
    /\ call.status # "Not Applied"
    /\ call.jobTitle # TitleOf(call.jobId)
    /\ Len(history) = 20
    /\ Len(recorded) > 20

\* C3: a saveJobStatus with the status that is stored for the job leaves
\* the persisted history as it was.
C3_SameStatusKeepsHistory ==
    [][ (/\ IsSave(call')
         /\ loadJobStatuses(statusItem)[call'.jobId] = call'.status)
        => historyItem' = historyItem ]_vars

\* a call with the stored, non-default status was made on a history that
\* holds an entry
C3_Witness ==
    /\ IsSave(call)
    /\ call.stored = call.status
    /\ call.status # "Not Applied"
    /\ Len(history) > 0

\* C4: saveJobStatus(jobId, s, ..) with s = getJobStatus(jobId) leaves the
\* persisted status map and the persisted history unchanged.
C4_SetCurrentIsNoOp ==
    [][ (/\ IsSave(call')
         /\ getJobStatus(statusItem, call'.jobId) = call'.status)
        => /\ statusItem' = statusItem
           /\ historyItem' = historyItem ]_vars

\* C5: once 20 or more changes were recorded, the history is the 20 most
\* recent of them, newest first; the older ones are evicted.
C5_Holds20MostRecent ==
    Len(recorded) >= 20 =>
        /\ Len(history) = 20
        /\ \A i \in 1..20 : history[i] = recorded[i]

\* 21 changes were recorded, the last by a saveJobStatus call, and the
\* first change differs from the oldest entry kept
C5_Witness ==
    /\ Len(recorded) = 21
    /\ IsSave(call)
    /\ Len(history) = 20
    /\ recorded[21] # history[20]

\* getJobStatus gives, for every job, the status of the latest
\* saveJobStatus call since the last clear, Not Applied when there was none
C6_LastSetStatus ==
    \A j \in TrackedJobs :
        getJobStatus(statusItem, j) = IF lastSet[j] = "none" THEN "Not Applied" ELSE lastSet[j]

\* a saveJobStatus call leaves the status of every other job as it was
C6_OtherJobsKept ==
    [][ IsSave(call')
        => \A k \in TrackedJobs \ {call'.jobId} :
               getJobStatus(statusItem', k) = getJobStatus(statusItem, k) ]_vars

\* C6: getJobStatus gives the status of the latest saveJobStatus call for
\* the job, Not Applied when there was none since the last clear; a
\* saveJobStatus call leaves the status of every other job as it was.
C6_GetReturnsLatestSet == []C6_LastSetStatus /\ C6_OtherJobsKept

\* one job was set twice, since the last clear, and is now Selected;
\* another was set before that clear
C6_Witness ==
    /\ IsSave(call)
    /\ call.stored \in {"Applied", "Rejected"}
    /\ call.status = "Selected"
    /\ \E k \in TrackedJobs \ {call.jobId} :
           /\ lastSet[k] = "none"
           /\ \E i \in 1..Len(recorded) : recorded[i].jobId = k

\* C7: getRecentStatusUpdates(days) returns the history entries whose
\* changedAt is at or after now - days, in history order, with days = 7
\* when no argument is given, and leaves the persisted history as it was.
C7_RecentUpdates ==
    [][ call'.op = "getRecentStatusUpdates"
        => LET d == IF Len(call'.args) = 0 THEN 7 ELSE call'.args[1]
               AtOrAfter(e) == parseDate(e.changedAt) >= now - d * TicksPerDay
           IN  /\ call'.result = SelectSeq(history, AtOrAfter)
               /\ historyItem' = historyItem
               /\ now' = now ]_vars

\* called without an argument, it left out an entry and kept one that is
\* exactly 7 days old
C7_Witness ==
    /\ call.op = "getRecentStatusUpdates"
    /\ call.args = << >>
    /\ Len(call.result) < Len(history)
    /\ \E i \in 1..Len(call.result) :
           parseDate(call.result[i].changedAt) = now - 7 * TicksPerDay

----------------------------------------------------------------------------
(* The digest generator's properties *)

ScoreOf(job, preferences) ==
    IF preferences = NullPrefs THEN 0 ELSE calculateMatchScore(job, preferences)

IsGenerate(c) == c.op = "generateDigest"

\* C8: for every preferences value, none included, generateDigest returns
\* at most 10 jobs, and of two consecutive jobs the first has the higher
\* score, or the same score and a postedDaysAgo that is not larger.
C8_DigestSortedAtMost10 ==
    IsGenerate(call) =>
        LET d == call.result.jobs
        IN  /\ Len(d) <= 10
            /\ \A i \in 1..(Len(d) - 1) :
                   \/ d[i].matchScore > d[i + 1].matchScore
                   \/ /\ d[i].matchScore = d[i + 1].matchScore
                      /\ d[i].postedDaysAgo <= d[i + 1].postedDaysAgo

\* a digest of 10 jobs out of more, with a drop in score and with a tie in
\* score broken by postedDaysAgo
C8_Witness ==
    /\ IsGenerate(call)
    /\ Len(jobs) > 10
    /\ LET d == call.result.jobs
       IN  /\ Len(d) = 10
           /\ \E i \in 1..9 : d[i].matchScore > d[i + 1].matchScore
           /\ \E i \in 1..9 : /\ d[i].matchScore = d[i + 1].matchScore
                              /\ d[i].postedDaysAgo < d[i + 1].postedDaysAgo

\* C9: the digest holds min(10, number of jobs) distinct jobs of the Job
\* Store, each with its calculateMatchScore (0 without preferences), and
\* no job left out ranks before a job of the digest.
C9_DigestIsTopOfRanking ==
    IsGenerate(call) =>
        LET d == call.result.jobs
            p == call.preferences
            InDigest == {d[i].id : i \in 1..Len(d)}
            LeftOut == {k \in 1..Len(jobs) : jobs[k].id \notin InDigest}
        IN  /\ Len(d) = Min(10, Len(jobs))
            /\ \A i, j \in 1..Len(d) : i # j => d[i].id # d[j].id
            /\ \A i \in 1..Len(d) :
                   \E k \in 1..Len(jobs) : d[i] = withScore(jobs[k], ScoreOf(jobs[k], p))
            /\ \A k \in LeftOut, i \in 1..Len(d) :
                   /\ ScoreOf(jobs[k], p) <= d[i].matchScore
                   /\ ScoreOf(jobs[k], p) = d[i].matchScore
                      => jobs[k].postedDaysAgo >= d[i].postedDaysAgo

\* a digest of 10 jobs that leaves out one of the first 10 jobs of a larger
\* store, and one with the score of a job in it
C9_Witness ==
    /\ IsGenerate(call)
    /\ Len(jobs) > 10
    /\ LET d == call.result.jobs
           InDigest == {d[i].id : i \in 1..Len(d)}
       IN  /\ Len(d) = 10
           /\ \E k \in 1..10 : jobs[k].id \notin InDigest
           /\ \E k \in 1..Len(jobs), i \in 1..10 :
                  /\ jobs[k].id \notin InDigest
                  /\ ScoreOf(jobs[k], call.preferences) = d[i].matchScore

\* the digest records stored for a calendar day
RecordsOfDay(day) == {r \in digestItems : r.key.day = day}

\* C10: after any number of completed generations on a calendar day, the
\* store holds exactly one digest record for that day, the result of the
\* latest generation.
C10_OneRecordPerDay ==
    \A g \in generated :
        /\ Cardinality(RecordsOfDay(g.day)) = 1
        /\ \A r \in RecordsOfDay(g.day) :
               /\ r.item.tag = "json"
               /\ r.item.val = g.digest

\* a second generation of a day has completed and replaced a different
\* digest
C10_Witness ==
    \E g \in generated :
        /\ g.n >= 2
        /\ g.prev # g.digest
        /\ \E r \in RecordsOfDay(g.day) : r.item.val = g.digest

----------------------------------------------------------------------------
(* The Digest page's mount *)

\* the records stored under the key of the local calendar day of `t`
RecordsOfToday(t) == RecordsOfDay((t + tz) \div TicksPerDay)

\* C11: a digest persists for the day. When the Digest page mounts and a
\* record is stored under today's key, that record becomes the displayed
\* digest and nothing is generated or stored; when none is stored under
\* today's key the page displays no digest, whatever is stored under the keys
\* of other days.
C11_DigestPersistsForTheDay ==
    [][(~page.mounted /\ page'.mounted) =>
          /\ \A r \in RecordsOfToday(now) :
                 r.item.tag = "json" => page'.digest = SomeDigest(r.item.val)
          /\ RecordsOfToday(now) = {} => page'.digest = NoDigest
          /\ \A r \in digestItems \ RecordsOfToday(now) :
                 page'.digest # SomeDigest(r.item.val)
          /\ ~page'.isGenerating
          /\ <<digestItems, timers, generated>>' = <<digestItems, timers, generated>>]_vars

\* a mounted page displays today's stored record, which its own preferences
\* would not have generated, while a record of another day is stored too
C11_Witness ==
    /\ page.mounted
    /\ page.digest.tag = "digest"
    /\ \E r \in RecordsOfToday(now) : r.item = JSONstringify(page.digest.val)
    /\ digestItems \ RecordsOfToday(now) # {}
    /\ page.digest.val # generateDigest(page.preferences, jobs,
                                        parseDate(page.digest.val.generatedAt))

----------------------------------------------------------------------------
(* The dashboard's filter and sort *)

IsFiltered(c) == c.op = "filteredJobs"

\* the jobs of a list, by id
IdsOf(list) == {list[i].id : i \in 1..Len(list)}

\* the threshold of the dashboard `v`
ThresholdOf(v) ==
    IF "minMatchScore" \in DOMAIN v.preferences THEN v.preferences.minMatchScore ELSE 40

\* whether the job passes the threshold of the dashboard `v`, when it is active
PassesThreshold(job, v) ==
    (v.showOnlyMatches /\ v.preferences.tag # "null")
        => calculateMatchScore(job, v.preferences) >= ThresholdOf(v)

\* the current status of a job on the dashboard `v`
CurrentStatus(id, v) ==
    IF id \in DOMAIN v.jobStatuses /\ v.jobStatuses[id] \in JobStatus
    THEN v.jobStatuses[id]
    ELSE "Not Applied"

\* whether the job passes every filter that is active on the dashboard `v`
PassesAll(job, v) ==
    /\ PassesThreshold(job, v)
    /\ v.filters.keyword # << >> =>
           \/ includes(lower(job.title), lower(v.filters.keyword))
           \/ includes(lower(job.company), lower(v.filters.keyword))
    /\ v.filters.location # "" => job.location = v.filters.location
    /\ v.filters.mode # "" => job.mode = v.filters.mode
    /\ v.filters.experience # "" => job.experience = v.filters.experience
    /\ v.filters.source # "" => job.source = v.filters.source
    /\ v.filters.status # "" => CurrentStatus(job.id, v) = v.filters.status

C13_AnyOrderSameSet ==
    (call.op = "applyFilter" /\ call.applied = Range(filterOrder)) =>
        Range(call.result)
            = Range(applyFilters(filterOrder, jobsWithScoresOf(view.preferences, jobs),
                                 dashboardInput(view)))

\* all seven filters have been applied, each of threshold, keyword, location
\* and status was active, and some but not all jobs are left
C13_Witness ==
    /\ call.op = "applyFilter" /\ call.applied = Range(filterOrder)
    /\ view.showOnlyMatches /\ view.preferences.tag # "null"
    /\ view.filters.keyword # << >>
    /\ view.filters.location # ""
    /\ view.filters.status # ""
    /\ call.result # << >>
    /\ Len(call.result) < Len(jobs)

\* the first integer of a salary range, 0 when it has none
RECURSIVE FirstInteger(_)
FirstInteger(s) ==
    IF s = << >> THEN 0
    ELSE IF Head(s) \in digitRuns THEN parseInt(Head(s))
    ELSE FirstInteger(Tail(s))

\* whether the numbers of `seq` never decrease
NonDecreasing(seq) == \A i, j \in 1..Len(seq) : i < j => seq[i] <= seq[j]
\* whether the numbers of `seq` never increase
NonIncreasing(seq) == \A i, j \in 1..Len(seq) : i < j => seq[i] >= seq[j]

\* C14: the output is ordered by the sort key: latest by non-decreasing
\* postedDaysAgo, oldest by non-increasing postedDaysAgo, match-score by
\* non-increasing score with a missing score counted as 0, salary-high and
\* salary-low by non-increasing and non-decreasing first integer of
\* salaryRange, 0 when it has no digits, so that "15-25 LPA" comes before
\* "10-18 LPA" under salary-high; and the sorted list holds the jobs the
\* filters left, each once.
C14_SortedByKey ==
    IsFiltered(call) =>
        LET r == call.result
            key == view.filters.sort
            posted == [i \in 1..Len(r) |-> r[i].postedDaysAgo]
            score == [i \in 1..Len(r) |-> ScoreOf(r[i], view.preferences)]
            salary == [i \in 1..Len(r) |-> FirstInteger(r[i].salaryRange)]
            unsorted == applyFilters(filterOrder, jobsWithScoresOf(view.preferences, jobs),
                                     dashboardInput(view))
        IN  /\ key = "latest" => NonDecreasing(posted)
            /\ key = "oldest" => NonIncreasing(posted)
            /\ key = "match-score" => NonIncreasing(score)
            /\ key = "salary-high" => NonIncreasing(salary)
            /\ key = "salary-low" => NonDecreasing(salary)
            /\ key = "salary-high" =>
                   \A i, j \in 1..Len(r) :
                       (/\ r[i].salaryRange = <<"15", "-", "25", "LPA">>
                        /\ r[j].salaryRange = <<"10", "-", "18", "LPA">>) => i < j
            /\ Len(r) = Len(unsorted)
            /\ Range(r) = Range(unsorted)

\* sorted by salary-high, the list holds a job of "15-25 LPA", one of
\* "10-18 LPA" and, behind them, one whose salary has no digits, and the
\* filters had left them in another order
C14_Witness ==
    /\ IsFiltered(call)
    /\ view.filters.sort = "salary-high"
    /\ \E i, j, k \in 1..Len(call.result) :
           /\ i < j /\ j < k
           /\ call.result[i].salaryRange = <<"15", "-", "25", "LPA">>
           /\ call.result[j].salaryRange = <<"10", "-", "18", "LPA">>
           /\ call.result[k].salaryRange = <<"Negotiable">>
    /\ call.result # applyFilters(filterOrder, jobsWithScoresOf(view.preferences, jobs),
                                  dashboardInput(view))

Reverse(seq) == [i \in 1..Len(seq) |-> seq[Len(seq) + 1 - i]]

\* the list of the dashboard `v` under the sort key `key`
ListSortedBy(key, v) == filteredJobs(dashboardInput([v EXCEPT !.filters.sort = key]))

\* whether the jobs of the list have pairwise distinct postedDaysAgo
DistinctPosted(list) ==
    \A i, j \in 1..Len(list) : i # j => list[i].postedDaysAgo # list[j].postedDaysAgo

\* C15: when the filtered jobs have pairwise distinct postedDaysAgo, the list
\* sorted by latest is the list sorted by oldest read backwards.
C15_LatestIsReverseOfOldest ==
    (IsFiltered(call) /\ DistinctPosted(call.result)) =>
        /\ view.filters.sort = "latest" => call.result = Reverse(ListSortedBy("oldest", view))
        /\ view.filters.sort = "oldest" => Reverse(call.result) = ListSortedBy("latest", view)

\* four jobs posted on four different days are listed by latest, and the
\* filters had left them in another order
C15_Witness ==
    /\ IsFiltered(call)
    /\ view.filters.sort = "latest"
    /\ Len(call.result) >= 4
    /\ DistinctPosted(call.result)
    /\ call.result # applyFilters(filterOrder, jobsWithScoresOf(view.preferences, jobs),
                                  dashboardInput(view))

\* the jobs of the store that pass the filters of the dashboard `v` other than
\* the threshold
PassingOtherFilters(v) ==
    {jobs[k].id : k \in {i \in 1..Len(jobs) :
                             PassesAll(jobs[i], [v EXCEPT !.showOnlyMatches = FALSE])}}

\* C17: with the toggle on and preferences loaded every displayed job has a
\* score of at least the preferences' minMatchScore, 40 when they have none;
\* with the toggle off, or without preferences, the threshold removes no job.
C17_ShowOnlyMatches ==
    IsFiltered(call) =>
        IF view.showOnlyMatches /\ view.preferences.tag # "null"
        THEN \A i \in 1..Len(call.result) :
                 calculateMatchScore(call.result[i], view.preferences)
                     >= (IF "minMatchScore" \in DOMAIN view.preferences
                         THEN view.preferences.minMatchScore ELSE 40)
        ELSE IdsOf(call.result) = PassingOtherFilters(view)

\* the toggle is on, the preferences have no minMatchScore, and the threshold
\* of 40 has removed some of the jobs and kept others
C17_Witness ==
    /\ IsFiltered(call)
    /\ view.showOnlyMatches
    /\ view.preferences = PrefsWithoutMin
    /\ call.result # << >>
    /\ IdsOf(call.result) # PassingOtherFilters(view)

----------------------------------------------------------------------------
(* The Dashboard and the Saved page *)

\* C16: the status filter works after any sequence of status changes.
\* Whenever a status is selected in the dashboard's status filter, every job
\* of the displayed list has that status as its current status (Not Applied
\* when it has none), also right after the user has changed the status of a
\* displayed job while the filter stays selected.
C16_StatusFilterFollowsChanges ==
    (view.kind = "dashboard" /\ view.filters.status # "") =>
        \A i \in 1..Len(view.filteredJobs) :
            CurrentStatus(view.filteredJobs[i].id, view) = view.filters.status

\* C19: a status update persists after refresh. On a Dashboard or Saved page
\* whose effects have run, also right after handleStatusChange(jobId, s), the
\* in-memory status map equals the persisted map; and on every such page,
\* whichever of the two it is and however often the pages were remounted
\* since, the status shown for a job is the one last set for it.
C19_StatusPersistsAfterRefresh ==
    Quiet(view) =>
        /\ view.jobStatuses = loadJobStatuses(statusItem)
        /\ \A j \in TrackedJobs :
               lastSet[j] # "none" => CurrentStatus(j, view) = lastSet[j]

\* a status set on the dashboard is shown on the card of the job on the Saved
\* page, mounted afterwards
C19_Witness ==
    /\ Quiet(view)
    /\ view.kind = "saved"
    /\ call.op = "handleStatusChange"
    /\ call.page = "dashboard"
    /\ call.status = "Selected"
    /\ call.jobId \in shownJobs(view)
    /\ CurrentStatus(call.jobId, view) = "Selected"

\* the page was mounted on a stored list and the user has not edited it since
MountedOnList(v) == v.kind # "none" /\ v.atMount.tag = "json" /\ ~v.edited

\* C18: saved jobs persist after a page reload. When the Dashboard or the
\* Saved page was mounted with a list of saved ids stored, then once its load
\* effect, its save effect and the render of the loaded list with its save
\* effect have run, the in-memory list and the stored list are the list that
\* was stored before the mount; and whenever the stored list differs from it
\* in between, as after the save effect of the first render, these steps
\* lead to a state where it is stored again.
C18_SavedJobsSurviveMount ==
    /\ [](MountedOnList(view) /\ Quiet(view)
            => view.savedJobIds = view.atMount.val /\ savedItem = view.atMount)
    /\ (MountedOnList(view) /\ savedItem # view.atMount)
           ~> (MountedOnList(view) /\ Quiet(view) /\ savedItem = view.atMount)

\* the mount of a page on the stored list <<2, 1>> is complete and the list is
\* stored and in memory, after the save effect of the first render had
\* replaced it in storage
C18_Witness ==
    /\ MountedOnList(view)
    /\ Quiet(view)
    /\ view.wiped
    /\ view.atMount = JSONstringify(<<2, 1>>)
    /\ savedItem = JSONstringify(<<2, 1>>)
    /\ view.savedJobIds = <<2, 1>>

----------------------------------------------------------------------------
(* The Ship page *)

\* C20: the Ship page is locked until all 10 tests are checked. After any
\* toggles and resets of the checklist, a Ship page that shows Ready to Ship
\* was mounted on a stored checklist in which every one of the 10 items is
\* checked; and the passed count of the Ship page and of the Test Checklist
\* page is never more than 10.
C20_ShipLockedUntilAllChecked ==
    /\ readyToShip(view) =>
           /\ testItem.tag = "json"
           /\ \A i \in 1..10 : testItems[i] \in testItem.val.on
    /\ view.kind \in {"ship", "checklist"} => view.passedCount <= 10

\* the Ship page shows Ready to Ship
C20_Witness ==
    /\ readyToShip(view)
    /\ testItem.tag = "json"
    /\ testItem.val.on = Range(testItems)

----------------------------------------------------------------------------
(* Entries that do not parse *)

\* the checklist without an entry
NothingChecked == [keys |-> {}, on |-> {}]

\* where a text that is not JSON is stored: loadJobStatuses gives the empty
\* map, loadStatusHistory the empty list, a Dashboard or Saved page mounted
\* on it has the empty list of saved ids and the Test Checklist page is about
\* to render the empty checklist
C21_FallsBackToEmpty ==
    /\ (call.op = "loadJobStatuses" /\ statusItem.tag = "bad")
           => \A j \in TrackedJobs : call.result[j] = Undefined
    /\ (call.op = "loadStatusHistory" /\ historyItem.tag = "bad") => call.result = << >>
    /\ (view.kind \in {"dashboard", "saved"} /\ view.atMount.tag = "bad")
           => /\ view.savedJobIds = << >>
              /\ view.updates.tag = "load" => view.updates.savedJobIds = << >>
    /\ (view.kind = "checklist" /\ view.updates.tag = "load" /\ testItem.tag = "bad")
           => view.updates.checkedItems = NothingChecked

\* the steps on such a text: the render of the checklist loaded from it, the
\* mount of the Digest page and a change of status
C21_StepsOnMalformed ==
    [][/\ (/\ view.kind = "checklist" /\ view'.kind = "checklist"
            /\ view.updates.tag = "load" /\ view'.updates.tag = "none")
           => view'.checkedItems = view.updates.checkedItems
       /\ (/\ ~page.mounted /\ page'.mounted
            /\ \E r \in RecordsOfToday(now) : r.item.tag = "bad")
           => page'.digest = [tag |-> "null"]
       /\ (calls' = calls + 1 /\ call'.op = "handleStatusChange" /\ statusItem.tag = "bad")
           => /\ statusItem' = [tag |-> "json",
                                val |-> [j \in TrackedJobs |->
                                            IF j = call'.jobId THEN call'.status
                                            ELSE Undefined]]
              /\ getJobStatus(statusItem', call'.jobId) = call'.status
              /\ historyItem.tag = "bad"
                     => /\ historyItem'.tag = "json"
                        /\ Len(historyItem'.val) = 1
                        /\ historyItem'.val[1].jobId = call'.jobId
                        /\ historyItem'.val[1].status = call'.status]_vars

\* C21: on a parse failure of a persisted entry the consumer falls back to
\* the empty default instead of failing: loadJobStatuses returns an empty map,
\* loadStatusHistory an empty list, the saved-id list becomes empty, the
\* checklist becomes empty and the digest becomes absent; a later
\* saveJobStatus then succeeds and overwrites the malformed entry.
C21_ParseFailureFallsBack == []C21_FallsBackToEmpty /\ C21_StepsOnMalformed

\* on a dashboard mounted on a malformed list of saved ids, now empty, a
\* status was set over a malformed status map, which now holds that status
\* alone, while the Digest page, mounted on a malformed digest of today,
\* shows none
C21_Witness ==
    /\ view.kind = "dashboard"
    /\ view.atMount.tag = "bad"
    /\ Quiet(view)
    /\ view.savedJobIds = << >>
    /\ call.op = "handleStatusChange"
    /\ call.found = "bad"
    /\ statusItem.tag = "json"
    /\ statusItem.val[call.jobId] = call.status
    /\ page.mounted
    /\ page.digest.tag = "null"
    /\ \E r \in RecordsOfToday(now) : r.item.tag = "bad"

----------------------------------------------------------------------------
(* The match score *)

----------------------------------------------------------------------------
(* The plain-text rendering of a digest *)

IsFormat(c) == c.op = "formatDigestAsText"

\* the lines of a text that carry a rank
RankedLines(text) == SelectSeq(text, LAMBDA line : "rank" \in DOMAIN line)

\* the text lists the jobs of the digest in digest order, with the ranks 1..n
C23_RanksInDigestOrder ==
    IsFormat(call) =>
        LET ranked == RankedLines(call.result)
        IN  /\ Len(ranked) = Len(call.digest.jobs)
            /\ \A i \in 1..Len(ranked) :
                   /\ ranked[i].rank = i
                   /\ ranked[i].title = call.digest.jobs[i].title

\* two renderings in a row of the same digest give the same text
C23_SameDigestSameText ==
    [][(IsFormat(call) /\ IsFormat(call') /\ call'.digest = call.digest)
          => call'.result = call.result]_vars

\* C23: the plain-text rendering of a digest is deterministic in the digest:
\* formatDigestAsText applied twice to the same DigestData gives the same
\* text whatever the time of the call, and the text lists the digest's jobs in
\* digest order with ranks 1..n.
C23_TextDeterminedByDigest == []C23_RanksInDigestOrder /\ C23_SameDigestSameText

----------------------------------------------------------------------------
(* The date of a stored digest *)

\* C24: the date field of every stored digest record names the same calendar
\* day as the day-derived key under which the record is stored.
C24_DateIsTheDayOfTheKey ==
    \A r \in digestItems : r.item.tag = "json" => r.item.val.date = r.key.day

----------------------------------------------------------------------------
(* The delay of the generation *)

\* the generations completed so far
RECURSIVE CompletedIn(_)
CompletedIn(gs) ==
    IF gs = {} THEN 0
    ELSE LET g == CHOOSE x \in gs : TRUE IN g.n + CompletedIn(gs \ {g})

\* the digest stored by the step
StoredByStep == getItem(digestItems', getTodayKey(now, tz))

\* once generation is started the timer fires: every click is followed by a
\* completed generation, and the page that started it stops generating
C25_Eventually ==
    /\ [](CompletedIn(generated) + Len(timers) = calls)
    /\ (timers # << >>) ~> (timers = << >> /\ CompletedIn(generated) = calls)
    /\ page.isGenerating ~> ~page.isGenerating

\* the digest stored is the one an immediate generation would have stored,
\* and it is displayed
C25_SameAsImmediate ==
    [][(timers # << >> /\ timers' = Tail(timers)) =>
          LET timer == Head(timers)
          IN  /\ StoredByStep = JSONstringify(generateDigest(timer.preferences, jobs, timer.at))
              /\ page'.digest = SomeDigest(StoredByStep.val)
              /\ ~page'.isGenerating]_vars

\* C25 as stated: the delay before digest generation has no effect on
\* correctness: once generation is started, then (assuming the timer fires) a
\* digest computed from the preferences is eventually stored under the current
\* day's key, becomes the displayed digest, and the generating flag returns to
\* false; the stored digest is the same as the one an immediate, delay-free
\* generation would have stored.
C25_DelayHasNoEffect == C25_Eventually /\ C25_SameAsImmediate

\* C25, amended: once generation is started and the timer fires, a digest is
\* stored under the key of the day on which the timer fires; its jobs are
\* those an immediate generation from the preferences of the click would have
\* listed, its date and generatedAt are those of the moment the timer fires;
\* on the page that started the generation, if it is still mounted, it
\* becomes the displayed digest and the generating flag returns to false.
C25_DelayKeepsTheJobs ==
    /\ C25_Eventually
    /\ [][(timers # << >> /\ timers' = Tail(timers)) =>
              LET timer == Head(timers)
                  immediate == generateDigest(timer.preferences, jobs, timer.at)
              IN  /\ StoredByStep.tag = "json"
                  /\ StoredByStep.val.jobs = immediate.jobs
                  /\ StoredByStep.val.generatedAt = toISOString(now)
                  /\ StoredByStep.val.date = toISOString(now).day
                  /\ (page.mounted /\ page.inst = timer.inst)
                         => /\ page'.digest = SomeDigest(StoredByStep.val)
                            /\ ~page'.isGenerating
                  /\ ~(page.mounted /\ page.inst = timer.inst) => page' = page]_vars

\* a generation has completed after the clock had moved on since its click:
\* its digest, stamped later than the click of a generation still pending, is
\* stored under today's key, while the page now mounted, which did not start
\* it, shows no digest and is generating
C25_Witness ==
    /\ timers # << >>
    /\ page.mounted
    /\ page.isGenerating
    /\ page.digest.tag = "null"
    /\ \E g \in generated :
           /\ g.n = 1
           /\ Head(timers).at < parseDate(g.digest.generatedAt)
           /\ getItem(digestItems, getTodayKey(now, tz)) = JSONstringify(g.digest)

----------------------------------------------------------------------------
(* The history and the default status *)

\* no entry of the history has the default status
C26_NoDefaultInHistory ==
    \A i \in 1..Len(history) : history[i].status # "Not Applied"

\* a saveJobStatus call with Not Applied leaves the history as it was and,
\* for a job stored with another status or with none, changes the status map,
\* which then holds Not Applied for the job
C26_DefaultLeavesHistory ==
    [][(IsSave(call') /\ call'.status = "Not Applied")
          => /\ historyItem' = historyItem
             /\ loadJobStatuses(statusItem)[call'.jobId] # "Not Applied"
                    => /\ statusItem' # statusItem
                       /\ loadJobStatuses(statusItem')[call'.jobId] = "Not Applied"]_vars

EntriesOf(j) == SelectSeq(history, LAMBDA e : e.jobId = j)

\* C27: after any sequence of saveJobStatus and clearJobStatuses calls from an
\* empty store, for every job whose stored status is a non-default status s,
\* the newest history entry for that job, if any entry for it remains in the
\* history, has status s.
C27_NewestEntryIsTheStatus ==
    \A j \in TrackedJobs :
        LET s == loadJobStatuses(statusItem)[j]
        IN  (s \in {"Applied", "Rejected", "Selected"} /\ EntriesOf(j) # << >>)
                => EntriesOf(j)[1].status = s

\* after a clear that removed the status of another job, whose entry is still
\* in the history, a job with an older entry of another status was set to a
\* non-default status
C27_Witness ==
    /\ IsSave(call)
    /\ call.status \in {"Applied", "Rejected", "Selected"}
    /\ loadJobStatuses(statusItem)[call.jobId] = call.status
    /\ Len(EntriesOf(call.jobId)) >= 2
    /\ EntriesOf(call.jobId)[2].status # call.status
    /\ \E k \in TrackedJobs \ {call.jobId} :
           /\ loadJobStatuses(statusItem)[k] = Undefined
           /\ EntriesOf(k) # << >>

----------------------------------------------------------------------------
(* Saving and unsaving a job *)

IsToggle(c) == c.op = "handleSaveJob"

\* whether no id is twice in the list
NoIdTwice(list) == \A i, k \in 1..Len(list) : i # k => list[i] # list[k]

\* the saved list of a Dashboard or Saved page holds no id twice
C28_NoDuplicates ==
    view.kind \in {"dashboard", "saved"} => NoIdTwice(view.savedJobIds)

\* a toggle removes the id from a list that holds it, keeping the others in
\* their order, and puts it at the end of a list that does not; a second
\* toggle of the id toggled last restores the set of saved ids
C28_TogglesMembership ==
    [][(IsToggle(call') /\ call' # call)
          => LET prev == view.savedJobIds
                 next == view'.savedJobIds
                 id == call'.jobId
                 held == id \in {prev[i] : i \in 1..Len(prev)}
             IN  /\ held => /\ \A i \in 1..Len(next) : next[i] # id
                            /\ next = SelectSeq(prev, LAMBDA x : x # id)
                 /\ ~held => /\ Len(next) = Len(prev) + 1
                             /\ next[Len(next)] = id
                             /\ \A i \in 1..Len(prev) : next[i] = prev[i]
                 /\ (IsToggle(call) /\ call.jobId = id)
                        => {next[i] : i \in 1..Len(next)}
                               = {call.prev[i] : i \in 1..Len(call.prev)}]_vars

\* C28: handleSaveJob toggles membership: it removes the job id when it is in
\* the saved list and appends it at the end otherwise; starting from a
\* duplicate-free list, after any sequence of toggles the saved list contains
\* no id twice, and toggling the same id twice restores the set of saved ids.
C28_SaveJobToggles == []C28_NoDuplicates /\ C28_TogglesMembership

\* on a dashboard mounted on the list <<2, 1>> the id 2 was toggled twice in
\* a row: the set is the one before, the id is now the last of the list
C28_Witness ==
    /\ IsToggle(call)
    /\ view.kind = "dashboard"
    /\ view.atMount = JSONstringify(<<2, 1>>)
    /\ call.jobId = 2
    /\ call.prev = <<1>>
    /\ view.savedJobIds = <<1, 2>>

----------------------------------------------------------------------------
(* The Job Store's properties *)

\* the ids of a list, in its order
idOrder(list) == [i \in 1..Len(list) |-> list[i].id]

\* C29: the Job Store is never mutated. It holds the jobs of data/jobs, in
\* their order, in every state, and no step changes it: not a change of the
\* sort or of a filter on the dashboard, not a digest generation, not a save
\* toggle and not a status change. The lists the dashboard and the digest
\* show are other lists: they hold jobs of the store, in their own order.
C29_StoreAsExported == jobs = AllJobs
C29_NoStepChangesTheStore == [][jobs' = jobs]_vars
C29_SortedListsAreCopies ==
    /\ view.kind = "dashboard"
          => \A i \in 1..Len(view.filteredJobs) :
                 \E k \in 1..Len(jobs) :
                     \A f \in DOMAIN jobs[k] : view.filteredJobs[i][f] = jobs[k][f]
    /\ IsGenerate(call)
          => \A i \in 1..Len(call.result.jobs) :
                 \E k \in 1..Len(jobs) :
                     \A f \in DOMAIN jobs[k] : call.result.jobs[i][f] = jobs[k][f]
C29_StoreNeverMutated ==
    /\ []C29_StoreAsExported
    /\ []C29_SortedListsAreCopies
    /\ C29_NoStepChangesTheStore

\* a job was saved, a status was changed, the dashboard shows every job in
\* an order that is not the store's, and a digest was generated whose jobs
\* carry a score and are not in the store's order either
C29_Witness ==
    /\ view.kind = "dashboard"
    /\ view.savedJobIds # << >>
    /\ statusItem.tag = "json"
    /\ view.filters.sort = "salary-high"
    /\ Len(view.filteredJobs) = Len(jobs)
    /\ idOrder(view.filteredJobs) # idOrder(jobs)
    /\ IsGenerate(call)
    /\ call.preferences.tag # "null"
    /\ idOrder(call.result.jobs) # SubSeq(idOrder(jobs), 1, Len(call.result.jobs))
    /\ \E i \in 1..Len(call.result.jobs) : call.result.jobs[i].matchScore > 0
    /\ jobs = AllJobs

====
